---- MODULE Spec2Model ----
(***************************************************************************)
(* Verification model of the futarchy arbitrage bot (futarchy-bots).       *)
(*                                                                         *)
(* Seven specifications share the variables of this module:                *)
(*   SpecLimit      the price-limit computations and the manager's swaps   *)
(*                  on the sDAI / sDAI-YES pool,                           *)
(*   SpecSwap       one call of a swap executor (Balancer, Swapr,          *)
(*                  SushiSwap, buy_sdai_yes) against a wallet, a pool and  *)
(*                  a router,                                              *)
(*   SpecArb        one run of an arbitrage routine of main.py,            *)
(*   SpecTokens     split_position and merge_position of the conditional   *)
(*                  token model, and the controller in front of them,      *)
(*   SpecReconcile  the balancing, merge and summary steps of the three    *)
(*                  routines that balance sDAI-YES against sDAI-NO,        *)
(*   SpecSim        the calls of the Tenderly clients and of the           *)
(*                  components that return a result to their caller,       *)
(*   SpecSell       steps 2 to 5 of a sell routine.                        *)
(*                                                                         *)
(* Units.  TLC integers are 32 bits wide, the program's sqrtPriceX96       *)
(* values are up to 160 bits wide.  Prices are therefore expressed in a    *)
(* scaled unit in which MIN_SQRT_RATIO is 4 and MAX_SQRT_RATIO is 1023;    *)
(* the precision of the program's arithmetic (53 significant bits of a     *)
(* Python float, 28 significant digits of a Decimal) is scaled with them   *)
(* to MantBits bits and DecDigits digits, so that, as in the program,      *)
(* prices have more significant digits than the arithmetic keeps.          *)
(* Tolerances are in thousandths (5 is 0.5%, 50 is 5%).                    *)
(***************************************************************************)
EXTENDS Integers, Sequences, FiniteSets, TLC

VARIABLES
    lcall,      \* SpecLimit: the price-limit call under study
    venue,      \* SpecSwap: which executor is being called
    pc,         \* SpecSwap: position inside the executor
    amount,     \* SpecSwap: amount_in of the call (wei)
    wallet,     \* SpecSwap: on-chain balances of the account
    allowance,  \* SpecSwap: ERC20 allowance of the venue's spender
    pool_price, \* SpecSwap: current sqrt price of the pool
    locals,     \* SpecSwap: local variables of the executor
    trace,      \* SpecSwap: chain reads and transactions, in order
    result,     \* SpecSwap: value returned by the executor
    zfo,        \* SpecSwap: zero_for_one, the direction of the call
    wallet0,    \* SpecSwap: the balances when the call started
    flow,       \* SpecArb: which arbitrage routine runs
    apc,        \* SpecArb: the step the run is at
    bal,        \* SpecArb: on-chain balances of the account, per token
    arb,        \* SpecArb: local variables of the routine
    txlog,      \* SpecArb: the operations the run attempted, in order
    report,     \* SpecArb: the summary printed at the end, if any
    ctm_plan,   \* SpecTokens: the split/merge calls still to be made
    ctm_pc,     \* SpecTokens: position inside the current call
    ctm_call,   \* SpecTokens: arguments of the calls (symbol, amount, simulate)
    holdings,   \* SpecTokens: balances of the base, YES and NO tokens
    router_allowance, \* SpecTokens: allowances of the futarchy router
    ctm_trace,  \* SpecTokens: transactions broadcast, in order
    ctm_results, \* SpecTokens: (success, tx_hash) returned by each call
    rec,        \* SpecReconcile: the routine, its recorded start balances
    rpc,        \* SpecReconcile: the step the routine is at
    rbal,       \* SpecReconcile: balances of sDAI, sDAI-YES and sDAI-NO
    rlog,       \* SpecReconcile: trades and merges attempted, in order
    rreport,    \* SpecReconcile: the summary, if the routine got to it
    sim,        \* SpecSim: the last simulator or component call, if any
    sell        \* SpecSell: steps 2 to 5 of a sell routine

arbVars == <<flow, apc, bal, arb, txlog, report>>

swapVars == <<venue, pc, amount, wallet, allowance, pool_price, locals,
              trace, result, zfo, wallet0>>

ctmVars == <<ctm_plan, ctm_pc, ctm_call, holdings, router_allowance,
             ctm_trace, ctm_results>>

(* The variables of the specifications that follow SpecArb.                *)
recVars == <<rec, rpc, rbal, rlog, rreport>>

simVars == <<sim>>

sellVars == <<sell>>

extVars == <<ctmVars, recVars, simVars, sellVars>>

vars == <<lcall, swapVars, arbVars, extVars>>

(* Python's None and a present value.                                      *)
None == <<>>

Some(v) == <<v>>

Val(o) == o[1]

----------------------------------------------------------------------------
(* Program constants and the precision of the program's arithmetic.        *)

MIN_SQRT_RATIO == 4

MAX_SQRT_RATIO == 1023

MantBits == 8

DecDigits == 3

Max(a, b) == IF a >= b THEN a ELSE b

Min(a, b) == IF a <= b THEN a ELSE b

RECURSIVE Pow(_, _)
Pow(b, n) == IF n = 0 THEN 1 ELSE b * Pow(b, n - 1)

(* a / b rounded to the nearest integer, ties to the even one: the         *)
(* rounding of IEEE-754 doubles and of the default decimal context.        *)
RoundHalfEven(a, b) ==
    LET q == a \div b
        r == a % b
    IN  IF 2 * r > b \/ (2 * r = b /\ q % 2 = 1) THEN q + 1 ELSE q

(* The exponent e at which n / d has at most `digits` significant digits   *)
(* in base `base`: the least e >= -digits with n / d < base^(digits + e).  *)
Exponent(base, digits, n, d) ==
    LET fits(e) == IF e >= 0
                   THEN n < d * Pow(base, digits + e)
                   ELSE n * Pow(base, -e) < d * Pow(base, digits)
    IN  CHOOSE e \in (-digits)..(2 * digits) :
            fits(e) /\ (e = -digits \/ ~fits(e - 1))

(* int(x) of the value n / d after it was rounded to `digits` significant  *)
(* digits in base `base`.                                                  *)
RoundedInt(base, digits, n, d) ==
    LET e == Exponent(base, digits, n, d)
    IN  IF e >= 0
        THEN RoundHalfEven(n, d * Pow(base, e)) * Pow(base, e)
        ELSE RoundHalfEven(n * Pow(base, -e), d) \div Pow(base, -e)

(* float(n) of a Python int.                                               *)
FloatOfInt(n) == RoundedInt(2, MantBits, n, 1)

(* int(n * f) for a Python int n and the float f = num / 1000: n is        *)
(* converted to a float, the product is rounded to a float, int truncates. *)
IntOfFloatProduct(n, num) == RoundedInt(2, MantBits, FloatOfInt(n) * num, 1000)

(* int(Decimal(str(n)) * f) for the Decimal f = num / 1000: the product    *)
(* is rounded to the precision of the decimal context, int truncates.      *)
IntOfDecimalProduct(n, num) == RoundedInt(10, DecDigits, n * num, 1000)

----------------------------------------------------------------------------
(* Price limits.                                                           *)

(* SwapManager._calculate_sqrt_price_limit, first with the upper bound     *)
(* computed for both directions, then as it is.                            *)
calculate_sqrt_price_limit_upper(current_sqrt_price, zero_for_one, slippage_tolerance) ==
    Min(IntOfFloatProduct(current_sqrt_price, 1000 + slippage_tolerance),
        MAX_SQRT_RATIO)

calculate_sqrt_price_limit(current_sqrt_price, zero_for_one, slippage_tolerance) ==
    IF zero_for_one
    THEN Max(IntOfFloatProduct(current_sqrt_price, 1000 - slippage_tolerance),
             MIN_SQRT_RATIO)
    ELSE Min(IntOfFloatProduct(current_sqrt_price, 1000 + slippage_tolerance),
             MAX_SQRT_RATIO)

(* SushiSwapV3Handler.swap_exact_in: the "Calculate Price Limit" block,    *)
(* first without its max/min clamp, then as it is.                         *)
sushi_price_limit_unclamped(current_sqrt_price, zero_for_one, slippage) ==
    IF zero_for_one
    THEN IntOfDecimalProduct(current_sqrt_price, 1000 - slippage)
    ELSE IntOfDecimalProduct(current_sqrt_price, 1000 + slippage)

sushi_price_limit(current_sqrt_price, zero_for_one, slippage) ==
    IF zero_for_one
    THEN Max(IntOfDecimalProduct(current_sqrt_price, 1000 - slippage),
             MIN_SQRT_RATIO)
    ELSE Min(IntOfDecimalProduct(current_sqrt_price, 1000 + slippage),
             MAX_SQRT_RATIO)

(* Tolerances in [0, 1), in thousandths.                                   *)
Tolerances == {0, 5, 50, 500}

(* The tolerances a caller may pass: those of [0, 1), one below 0 and 1.   *)
ToleranceInputs == Tolerances \cup {-50, 1000}

Prices == MIN_SQRT_RATIO..MAX_SQRT_RATIO

IdleArb ==
    /\ flow = "none" /\ apc = "idle" /\ bal = <<>> /\ arb = <<>>
    /\ txlog = <<>> /\ report = None

IdleTokens ==
    /\ ctm_plan = <<>> /\ ctm_pc = "idle"
    /\ ctm_call = [symbol |-> "none", amount |-> 0, simulate |-> FALSE,
                   account |-> FALSE]
    /\ holdings = [base |-> 0, yes |-> 0, no |-> 0]
    /\ router_allowance = [base |-> 0, yes |-> 0, no |-> 0]
    /\ ctm_trace = <<>> /\ ctm_results = <<>>

IdleRec ==
    /\ rec = <<>> /\ rpc = "idle" /\ rbal = <<>> /\ rlog = <<>>
    /\ rreport = None

IdleSim == sim = None

IdleSell == sell = <<>>

(* Every specification but `me` is idle.                                   *)
IdleExcept(me) ==
    /\ IF me = "tokens" THEN TRUE ELSE IdleTokens
    /\ IF me = "reconcile" THEN TRUE ELSE IdleRec
    /\ IF me = "sim" THEN TRUE ELSE IdleSim
    /\ IF me = "sell" THEN TRUE ELSE IdleSell

IdleExt == IdleExcept("none")

IdleSwap ==
    /\ venue = "none" /\ pc = "idle" /\ amount = 0
    /\ wallet = [in |-> 0, out |-> 0] /\ wallet0 = wallet
    /\ allowance = [token |-> 0, permit2 |-> 0] /\ pool_price = 0
    /\ locals = [quote |-> None, min_out |-> None, limit |-> None]
    /\ trace = <<>> /\ result = None /\ zfo = FALSE

IdleLimit ==
    lcall = [fn |-> "none", price |-> 0, zero_for_one |-> FALSE,
             tolerance |-> 0, limit |-> None, pool |-> None,
             token_in |-> "none", ret |-> None]

(* What token0() and token1() of the sDAI / sDAI-YES pool answer; None     *)
(* when the pool cannot be read.                                           *)
PoolOrders ==
    {None, Some(<<"sdai", "sdai_yes">>), Some(<<"sdai_yes", "sdai">>),
     Some(<<"sdai", "other">>)}

InitLimit ==
    /\ \/ lcall \in [fn : {"manager", "sushi"}, price : Prices,
                      zero_for_one : BOOLEAN, tolerance : ToleranceInputs,
                      limit : {None}, pool : {None}, token_in : {"none"},
                      ret : {None}]
       \/ lcall \in [fn : {"buy_sdai_yes", "sell_sdai_yes"}, price : Prices,
                      zero_for_one : {FALSE}, tolerance : ToleranceInputs,
                      limit : {None}, pool : PoolOrders, token_in : {"none"},
                      ret : {None}]
    /\ IdleSwap
    /\ IdleArb
    /\ IdleExt

ManagerLimit ==
    /\ lcall.fn = "manager" /\ lcall.limit = None
    /\ lcall' = [lcall EXCEPT !.limit =
           Some(calculate_sqrt_price_limit(lcall.price, lcall.zero_for_one,
                                           lcall.tolerance))]
    /\ UNCHANGED <<swapVars, arbVars, extVars>>

SushiLimit ==
    /\ lcall.fn = "sushi" /\ lcall.limit = None
    /\ lcall' = [lcall EXCEPT !.limit =
           Some(sushi_price_limit(lcall.price, lcall.zero_for_one,
                                  lcall.tolerance))]
    /\ UNCHANGED <<swapVars, arbVars, extVars>>

(* SwapManager.swap_conditional as buy_sdai_yes and sell_sdai_yes call it: *)
(* the limit of the direction it is given, then the call of the            *)
(* passthrough router, which answers ok.                                   *)
swap_conditional(l, token_in, zero_for_one, ok) ==
    [l EXCEPT !.token_in = token_in,
              !.zero_for_one = zero_for_one,
              !.limit = Some(calculate_sqrt_price_limit(l.price, zero_for_one,
                                                        l.tolerance)),
              !.ret = Some(ok)]

(* SwapManager.buy_sdai_yes: sDAI in; the direction follows the order of   *)
(* the pool's tokens, any other pool is refused.                           *)
ManagerBuySdaiYes ==
    /\ lcall.fn = "buy_sdai_yes" /\ lcall.ret = None
    /\ \E ok \in BOOLEAN :
          lcall' =
              IF lcall.pool = None
              THEN [lcall EXCEPT !.ret = Some(FALSE)]
              ELSE IF Val(lcall.pool) = <<"sdai_yes", "sdai">>
              THEN swap_conditional(lcall, "sdai", FALSE, ok)
              ELSE IF Val(lcall.pool) = <<"sdai", "sdai_yes">>
              THEN swap_conditional(lcall, "sdai", TRUE, ok)
              ELSE [lcall EXCEPT !.ret = Some(FALSE)]
    /\ UNCHANGED <<swapVars, arbVars, extVars>>

(* SwapManager.sell_sdai_yes: sDAI-YES in.                                 *)
ManagerSellSdaiYes ==
    /\ lcall.fn = "sell_sdai_yes" /\ lcall.ret = None
    /\ \E ok \in BOOLEAN :
          lcall' =
              IF lcall.pool = None
              THEN [lcall EXCEPT !.ret = Some(FALSE)]
              ELSE IF Val(lcall.pool) = <<"sdai_yes", "sdai">>
              THEN swap_conditional(lcall, "sdai_yes", TRUE, ok)
              ELSE IF Val(lcall.pool) = <<"sdai", "sdai_yes">>
              THEN swap_conditional(lcall, "sdai_yes", FALSE, ok)
              ELSE [lcall EXCEPT !.ret = Some(FALSE)]
    /\ UNCHANGED <<swapVars, arbVars, extVars>>

NextLimit ==
    ManagerLimit \/ SushiLimit \/ ManagerBuySdaiYes \/ ManagerSellSdaiYes

SpecLimit == InitLimit /\ [][NextLimit]_vars

(* C8: for every price in [MIN_SQRT_RATIO, MAX_SQRT_RATIO] and every       *)
(* tolerance in [0, 1), a decreasing limit is <= the current price and     *)
(* >= MIN_SQRT_RATIO, an increasing limit is >= the current price and      *)
(* <= MAX_SQRT_RATIO.                                                      *)
C8_LimitWithinBounds ==
    (lcall.limit # None /\ lcall.tolerance \in Tolerances) =>
        IF lcall.zero_for_one
        THEN /\ Val(lcall.limit) <= lcall.price
             /\ Val(lcall.limit) >= MIN_SQRT_RATIO
        ELSE /\ Val(lcall.limit) >= lcall.price
             /\ Val(lcall.limit) <= MAX_SQRT_RATIO

----------------------------------------------------------------------------
(* One call of a swap executor.                                            *)
(*                                                                         *)
(* Amounts are in a unit of 1e-5 token.  `trace` records, in program       *)
(* order, the chain reads the claims speak of (quotes, slot0 price reads)  *)
(* and every transaction the call broadcast, with its receipt status.      *)

Q96 == 16

TEST_AMOUNT_CAP == 1

POOL_FEE_THOUSANDTHS == 3

Venues == {"balancer", "swapr", "sushi", "buy_sdai_yes", "aave_balancer"}

Amounts == {10, 20}

SwapPrices == {MIN_SQRT_RATIO, Q96, MAX_SQRT_RATIO}

(* What a quote may answer and what a mined swap may pay out.              *)
Quotes == {10, 20, 1000}

Outs == {1, 9, 19, 20, 1000}

Statuses == {"ok", "reverted", "timeout"}

(* 2**256 - 1, the "max approval", in the scaled unit.                     *)
max_approve_amount == Pow(2, MantBits) - 1

Ev(kind, status, amt, min_out, limit) ==
    [kind |-> kind, status |-> status, amt |-> amt, min_out |-> min_out,
     limit |-> limit, allowed |-> allowance.token >= amt]

IsTx(e) == e.kind \in {"approve", "approve_router", "authorize", "swap"}

Fail(err) ==
    [success |-> FALSE, token_in |-> None, token_out |-> None, error |-> err]

Succeed(token_in, token_out) ==
    [success |-> TRUE, token_in |-> token_in, token_out |-> token_out,
     error |-> "none"]

(* floor(a * b / c), computed without leaving 32 bits.                     *)
MulDiv(a, b, c) == (a \div c) * b + ((a % c) * b) \div c

(* The `if balance < amount_in_wei` test every executor starts with, and   *)
(* before it the test left out.                                            *)
sufficient_balance_unchecked(balance, amount_wei) == TRUE

sufficient_balance(balance, amount_wei) == ~(balance < amount_wei)

(* The receipts a swap transaction can get.  It is mined with status 1     *)
(* only if the wallet holds the input, the spender is allowed to pull it   *)
(* and the output reaches the minimum the transaction asks for; a swap     *)
(* with a price limit may stop early and take less than the whole input.   *)
SwapReceipts(amt, min_out, limit) ==
    LET can == /\ wallet.in >= amt
               /\ allowance.token >= amt
               /\ venue = "balancer" => allowance.permit2 >= amt
        limited == limit # None /\ limit # Some(0)
        used == {amt} \cup (IF limited /\ amt > 1 THEN {amt - 1} ELSE {})
        outs == {o \in Outs : min_out = None \/ o >= Val(min_out)}
        prices == IF venue \in {"balancer", "aave_balancer"} THEN {pool_price}
                  ELSE {p \in SwapPrices :
                           IF zfo THEN p <= pool_price ELSE p >= pool_price}
    IN  [status : {"reverted", "timeout"}, used : {0}, out : {0},
         price : {pool_price}]
        \cup (IF can
              THEN [status : {"ok"}, used : used, out : outs, price : prices]
              ELSE {})

(* The chain after the receipt r of a swap.                                *)
AfterSwap(r) ==
    /\ wallet' = [in |-> wallet.in - r.used, out |-> wallet.out + r.out]
    /\ pool_price' = r.price
    /\ allowance' = IF allowance.token = max_approve_amount
                    THEN [allowance EXCEPT !.permit2 = Max(0, @ - r.used)]
                    ELSE [token |-> allowance.token - r.used,
                          permit2 |-> Max(0, allowance.permit2 - r.used)]

Return(value) == result' = Some(value) /\ pc' = "done"

(* The configured pool address holds a pool: slot0 answers a price.        *)
PoolExists == pool_price # 0

InitSwap ==
    /\ venue \in Venues
    /\ amount \in Amounts
    /\ zfo \in BOOLEAN
    /\ wallet \in [in : {5, 10, 30}, out : {0}]
    /\ wallet0 = wallet
    /\ allowance \in [token : {0, max_approve_amount}, permit2 : {0}]
    /\ pool_price \in SwapPrices \cup (IF venue = "sushi" THEN {0} ELSE {})
    /\ locals = [quote |-> None, min_out |-> None, limit |-> None]
    /\ trace = <<>>
    /\ result = None
    /\ pc = "check"
    /\ IdleLimit
    /\ IdleArb
    /\ IdleExt

chainVars == <<wallet, allowance, pool_price>>

callVars == <<lcall, venue, amount, zfo, wallet0, arbVars, extVars>>

----------------------------------------------------------------------------
(* BalancerSwapHandler.swap_exact_in, execution path.                      *)

(* The order of the steps of the execution path.                           *)
BalancerStepAfterNoQuote(step) ==
    CASE step = "check" -> "permit2"
      [] step = "permit2" -> "approve_router"
      [] step = "quote" -> "approve_router"
      [] step = "approve_router" -> "swap"

BalancerStepAfter(step) ==
    CASE step = "check" -> "permit2"
      [] step = "permit2" -> "quote"
      [] step = "quote" -> "approve_router"
      [] step = "approve_router" -> "swap"

(* min_amount_wei = int(expected_amount_wei * (1 - slippage)).             *)
balancer_min_amount_no_tolerance(expected_amount_wei, slippage) ==
    expected_amount_wei

balancer_min_amount(expected_amount_wei, slippage) ==
    IntOfFloatProduct(expected_amount_wei, 1000 - slippage)

(* What the execution path returns once the swap has a receipt.  With      *)
(* status 1 the balance changes are computed from initial_balance_out, a   *)
(* name the function never binds: the NameError is caught by the           *)
(* function's `except Exception` and a failure is returned.                *)
balancer_execution_result(status) ==
    IF status = "ok"
    THEN Fail("name 'initial_balance_out' is not defined")
    ELSE Fail("swap_failed")

BalancerCheckBalance ==
    /\ venue = "balancer" /\ pc = "check"
    /\ IF sufficient_balance(wallet.in, amount)
       THEN pc' = BalancerStepAfter("check") /\ UNCHANGED result
       ELSE Return(Fail("insufficient_balance"))
    /\ UNCHANGED <<callVars, chainVars, locals, trace>>

(* _ensure_permit2_approval *)
BalancerEnsurePermit2 ==
    /\ venue = "balancer" /\ pc = "permit2"
    /\ IF allowance.token < amount
       THEN \E status \in Statuses :
              /\ trace' = Append(trace, Ev("approve", status,
                                           max_approve_amount, None, None))
              /\ IF status = "ok"
                 THEN /\ allowance' = [allowance EXCEPT
                                          !.token = max_approve_amount]
                      /\ pc' = BalancerStepAfter("permit2")
                      /\ UNCHANGED result
                 ELSE /\ Return(Fail("approval_failed"))
                      /\ UNCHANGED allowance
       ELSE /\ pc' = BalancerStepAfter("permit2")
            /\ UNCHANGED <<allowance, trace, result>>
    /\ UNCHANGED <<callVars, wallet, pool_price, locals>>

(* querySwapExactIn and the minimum derived from its answer *)
BalancerQuote ==
    /\ venue = "balancer" /\ pc = "quote"
    /\ \/ \E q \in Quotes :
            /\ locals' = [locals EXCEPT
                   !.quote = Some(q),
                   !.min_out = Some(balancer_min_amount(q, 50))]
            /\ trace' = Append(trace, Ev("quote", "ok", amount, None, None))
            /\ pc' = BalancerStepAfter("quote")
            /\ UNCHANGED result
       \/ /\ trace' = Append(trace, Ev("quote", "reverted", amount, None, None))
          /\ Return(Fail("query_failed"))
          /\ UNCHANGED locals
    /\ UNCHANGED <<callVars, chainVars>>

(* _approve_batch_router: sent on every call *)
BalancerApproveRouter ==
    /\ venue = "balancer" /\ pc = "approve_router"
    /\ \E status \in Statuses :
          /\ trace' = Append(trace, Ev("approve_router", status, amount,
                                       None, None))
          /\ IF status = "ok"
             THEN /\ allowance' = [allowance EXCEPT !.permit2 = amount]
                  /\ pc' = BalancerStepAfter("approve_router")
                  /\ UNCHANGED result
             ELSE /\ Return(Fail("approval_failed"))
                  /\ UNCHANGED allowance
    /\ UNCHANGED <<callVars, wallet, pool_price, locals>>

BalancerSwap ==
    /\ venue = "balancer" /\ pc = "swap"
    /\ \E r \in SwapReceipts(amount, locals.min_out, None) :
          /\ trace' = Append(trace, Ev("swap", r.status, amount,
                                       locals.min_out, None))
          /\ AfterSwap(r)
          /\ Return(balancer_execution_result(r.status))
    /\ UNCHANGED <<callVars, locals>>

----------------------------------------------------------------------------
(* bot.approve_token(token, spender, amount_wei): sends an approve         *)
(* transaction for amount_wei and returns whether its receipt has status   *)
(* 1 (the bot's helper as test_swapr.py implements it).                    *)
ApproveToken(amount_wei, status) ==
    /\ trace' = Append(trace, Ev("approve", status, amount_wei, None, None))
    /\ allowance' = IF status = "ok"
                    THEN [allowance EXCEPT !.token = amount_wei]
                    ELSE allowance

----------------------------------------------------------------------------
(* SwaprV3Handler.swap_exact_in.                                           *)

(* amount_out_minimum and limitSqrtPrice of the exactInputSingle call.     *)
swapr_amount_out_minimum == Some(1)

swapr_limit_sqrt_price == Some(0)

SwaprCheckBalance ==
    /\ venue = "swapr" /\ pc = "check"
    /\ IF sufficient_balance(wallet.in, amount)
       THEN pc' = "approve" /\ UNCHANGED result
       ELSE Return(Fail("insufficient_balance"))
    /\ UNCHANGED <<callVars, chainVars, locals, trace>>

SwaprApprove ==
    /\ venue = "swapr" /\ pc = "approve"
    /\ IF allowance.token < amount
       THEN \E status \in Statuses :
              /\ ApproveToken(amount, status)
              /\ IF status = "ok"
                 THEN pc' = "swap" /\ UNCHANGED result
                 ELSE Return(Fail("approval_failed"))
       ELSE /\ pc' = "swap"
            /\ UNCHANGED <<allowance, trace, result>>
    /\ UNCHANGED <<callVars, wallet, pool_price, locals>>

SwaprSwap ==
    /\ venue = "swapr" /\ pc = "swap"
    /\ \E r \in SwapReceipts(amount, swapr_amount_out_minimum,
                             swapr_limit_sqrt_price) :
          /\ trace' = Append(trace, Ev("swap", r.status, amount,
                                       swapr_amount_out_minimum,
                                       swapr_limit_sqrt_price))
          /\ AfterSwap(r)
          /\ IF r.status = "ok"
             THEN Return(Succeed(Some(-amount), None))
             ELSE Return(Fail("swap_failed"))
    /\ UNCHANGED <<callVars, locals>>

----------------------------------------------------------------------------
(* SushiSwapV3Handler.                                                     *)

(* simulate_swap_exact_in: the output estimated from the pool's spot       *)
(* price, less the pool fee.                                               *)
sushi_simulated_amount_out(amount_in_wei, current_sqrt_price, zero_for_one) ==
    IF zero_for_one
    THEN MulDiv(amount_in_wei * current_sqrt_price * current_sqrt_price,
                1000 - POOL_FEE_THOUSANDTHS, Q96 * Q96 * 1000)
    ELSE (amount_in_wei * Q96 * Q96 * (1000 - POOL_FEE_THOUSANDTHS))
             \div (current_sqrt_price * current_sqrt_price * 1000)

SushiCheckBalance ==
    /\ venue = "sushi" /\ pc = "check"
    /\ IF sufficient_balance(wallet.in, amount)
       THEN pc' = "approve" /\ UNCHANGED result
       ELSE Return(Fail("insufficient_balance"))
    /\ UNCHANGED <<callVars, chainVars, locals, trace>>

SushiApprove ==
    /\ venue = "sushi" /\ pc = "approve"
    /\ IF allowance.token < amount
       THEN \E status \in Statuses :
              /\ ApproveToken(max_approve_amount, status)
              /\ IF status = "ok"
                 THEN pc' = "price" /\ UNCHANGED result
                 ELSE Return(Fail("approval_failed"))
       ELSE /\ pc' = "price"
            /\ UNCHANGED <<allowance, trace, result>>
    /\ UNCHANGED <<callVars, wallet, pool_price, locals>>

(* slot0 is read and the limit computed with the default slippage 0.005;  *)
(* the call fails when the read fails, as it does at an address that       *)
(* holds no pool (price 0 here).                                           *)
SushiPriceLimit ==
    /\ venue = "sushi" /\ pc = "price"
    /\ IF PoolExists
       THEN /\ trace' = Append(trace, Ev("slot0", "ok", pool_price, None, None))
            /\ locals' = [locals EXCEPT
                   !.limit = Some(sushi_price_limit(pool_price, zfo, 5))]
            /\ pc' = "swap"
            /\ UNCHANGED result
       ELSE /\ trace' = Append(trace, Ev("slot0", "reverted", pool_price,
                                         None, None))
            /\ Return(Fail("price_limit"))
            /\ UNCHANGED locals
    /\ UNCHANGED <<callVars, chainVars>>

(* The swap; after a receipt with status 1 the returned amounts are       *)
(* -amount_in and the estimate of simulate_swap_exact_in (0 if it fails).  *)
SushiSwap ==
    /\ venue = "sushi" /\ pc = "swap"
    /\ \E r \in SwapReceipts(amount, None, locals.limit) :
          /\ AfterSwap(r)
          /\ IF r.status = "ok"
             THEN \E sim_ok \in BOOLEAN :
                    /\ trace' = trace \o
                         << Ev("swap", r.status, amount, None, locals.limit),
                            Ev("slot0", IF sim_ok THEN "ok" ELSE "reverted",
                               r.price, None, None) >>
                    /\ Return(Succeed(Some(-amount),
                         Some(IF sim_ok
                              THEN sushi_simulated_amount_out(amount, r.price,
                                                              zfo)
                              ELSE 0)))
             ELSE /\ trace' = Append(trace, Ev("swap", r.status, amount, None,
                                               locals.limit))
                  /\ Return(Fail("swap_failed"))
    /\ UNCHANGED <<callVars, locals>>

----------------------------------------------------------------------------
(* buy_sdai_yes(bot, amount_in_sdai) of conditional_token_actions.py.      *)

(* price_limit = int(current_sqrt_price_x96 * 0.8) or int(... * 1.2).      *)
buy_price_limit(current_sqrt_price_x96, zero_for_one) ==
    IF zero_for_one
    THEN IntOfFloatProduct(current_sqrt_price_x96, 800)
    ELSE IntOfFloatProduct(current_sqrt_price_x96, 1200)

(* test_amount = min(amount_in_sdai * 0.1, 1e-5).                          *)
test_amount(amount_in_sdai) == Min(amount_in_sdai \div 10, TEST_AMOUNT_CAP)

BuyCheckBalance ==
    /\ venue = "buy_sdai_yes" /\ pc = "check"
    /\ IF sufficient_balance(wallet.in, amount)
       THEN pc' = "price" /\ UNCHANGED result
       ELSE Return(Fail("insufficient_balance"))
    /\ UNCHANGED <<callVars, chainVars, locals, trace>>

(* slot0 is read once; price_limit is computed from it *)
BuyReadPrice ==
    /\ venue = "buy_sdai_yes" /\ pc = "price"
    /\ trace' = Append(trace, Ev("slot0", "ok", pool_price, None, None))
    /\ locals' = [locals EXCEPT !.limit = Some(buy_price_limit(pool_price, zfo))]
    /\ pc' = "authorize"
    /\ UNCHANGED <<callVars, chainVars, result>>

(* authorizePool: sent, its outcome ignored *)
BuyAuthorizePool ==
    /\ venue = "buy_sdai_yes" /\ pc = "authorize"
    /\ \E status \in Statuses :
          trace' = Append(trace, Ev("authorize", status, 0, None, None))
    /\ pc' = "approve_test"
    /\ UNCHANGED <<callVars, chainVars, locals, result>>

(* approve_token for the test amount: its return value is not looked at *)
BuyApproveTest ==
    /\ venue = "buy_sdai_yes" /\ pc = "approve_test"
    /\ \E status \in Statuses : ApproveToken(test_amount(amount), status)
    /\ pc' = "test_swap"
    /\ UNCHANGED <<callVars, wallet, pool_price, locals, result>>

(* the test swap, with price_limit *)
BuyTestSwap ==
    /\ venue = "buy_sdai_yes" /\ pc = "test_swap"
    /\ \E r \in SwapReceipts(test_amount(amount), None, locals.limit) :
          /\ trace' = Append(trace, Ev("swap", r.status, test_amount(amount),
                                       None, locals.limit))
          /\ AfterSwap(r)
          /\ IF r.status = "ok"
             THEN pc' = "approve_main" /\ UNCHANGED result
             ELSE Return(Fail("test_swap_failed"))
    /\ UNCHANGED <<callVars, locals>>

(* approve_token for the whole amount: its return value is not looked at *)
BuyApproveMain ==
    /\ venue = "buy_sdai_yes" /\ pc = "approve_main"
    /\ \E status \in Statuses : ApproveToken(amount, status)
    /\ pc' = "main_swap"
    /\ UNCHANGED <<callVars, wallet, pool_price, locals, result>>

(* the swap of the whole amount, with the same price_limit *)
BuyMainSwap ==
    /\ venue = "buy_sdai_yes" /\ pc = "main_swap"
    /\ \E r \in SwapReceipts(amount, None, locals.limit) :
          /\ trace' = Append(trace, Ev("swap", r.status, amount, None,
                                       locals.limit))
          /\ AfterSwap(r)
          /\ IF r.status = "ok"
             THEN Return(Succeed(None, None))
             ELSE Return(Fail("swap_failed"))
    /\ UNCHANGED <<callVars, locals>>

----------------------------------------------------------------------------
(* AaveBalancerHandler.swap_on_balancer, called without min_amount_out.    *)

(* min_amount_out = amount_in * 0.9 *)
aave_min_amount_out(amount_in) == IntOfFloatProduct(amount_in, 900)

AaveCheckBalance ==
    /\ venue = "aave_balancer" /\ pc = "check"
    /\ IF sufficient_balance(wallet.in, amount)
       THEN /\ pc' = "approve"
            /\ locals' = [locals EXCEPT
                   !.min_out = Some(aave_min_amount_out(amount))]
            /\ UNCHANGED result
       ELSE Return(Fail("insufficient_balance")) /\ UNCHANGED locals
    /\ UNCHANGED <<callVars, chainVars, trace>>

AaveApprove ==
    /\ venue = "aave_balancer" /\ pc = "approve"
    /\ \E status \in Statuses :
          /\ ApproveToken(amount, status)
          /\ IF status = "ok"
             THEN pc' = "swap" /\ UNCHANGED result
             ELSE Return(Fail("approval_failed"))
    /\ UNCHANGED <<callVars, wallet, pool_price, locals>>

AaveSwap ==
    /\ venue = "aave_balancer" /\ pc = "swap"
    /\ \E r \in SwapReceipts(amount, locals.min_out, None) :
          /\ trace' = Append(trace, Ev("swap", r.status, amount,
                                       locals.min_out, None))
          /\ AfterSwap(r)
          /\ IF r.status = "ok"
             THEN Return(Succeed(None, None))
             ELSE Return(Fail("swap_failed"))
    /\ UNCHANGED <<callVars, locals>>

NextSwap ==
    \/ BalancerCheckBalance \/ BalancerEnsurePermit2 \/ BalancerQuote
    \/ BalancerApproveRouter \/ BalancerSwap
    \/ SwaprCheckBalance \/ SwaprApprove \/ SwaprSwap
    \/ SushiCheckBalance \/ SushiApprove \/ SushiPriceLimit \/ SushiSwap
    \/ BuyCheckBalance \/ BuyReadPrice \/ BuyAuthorizePool \/ BuyApproveTest
    \/ BuyTestSwap \/ BuyApproveMain \/ BuyMainSwap
    \/ AaveCheckBalance \/ AaveApprove \/ AaveSwap

SpecSwap == InitSwap /\ [][NextSwap]_vars

----------------------------------------------------------------------------
(* Properties of the swap executors.                                       *)

SwapIdx == {i \in 1..Len(trace) : trace[i].kind = "swap"}

Returned == pc = "done" /\ result # None

(* C3: the amounts an executed swap reports are the differences of the     *)
(* input and output balances re-read after the swap, never an estimate.    *)
C3_RealizedAmountsFromBalances ==
    (Returned /\ venue \in {"balancer", "swapr", "sushi"}
        /\ Val(result).success) =>
        /\ Val(result).token_in = Some(wallet.in - wallet0.in)
        /\ Val(result).token_out = Some(wallet.out - wallet0.out)

C5_ApprovalConfirmedBeforeActing ==
    \A i \in SwapIdx :
        /\ trace[i].allowed
        /\ \A j \in 1..(i - 1) :
              trace[j].kind \in {"approve", "approve_router"}
                  => trace[j].status = "ok"

C10_LimitFromImmediatePriceRead ==
    \A i \in SwapIdx :
        (trace[i].limit # None /\ trace[i].limit # Some(0)) =>
            \E j \in 1..(i - 1) :
                /\ trace[j].kind = "slot0"
                /\ \A k \in (j + 1)..(i - 1) : ~IsTx(trace[k])

----------------------------------------------------------------------------
(* One run of an arbitrage routine: execute_arbitrage_sell_synthetic_gno   *)
(* of main.py and of experimental/main.py, and                             *)
(* execute_arbitrage_buy_synthetic_gno of main.py.                         *)
(*                                                                         *)
(* Each step calls an executor; the call is one action whose effect on     *)
(* the balances is the executor's net effect.  `txlog` records the calls   *)
(* that were made and whether they moved funds.                            *)

Flows == {"sell_legacy", "sell_experimental", "buy_legacy"}

ArbAmounts == {6}

(* yes_price / no_price as num / den; the probability is 1/2.              *)
Markets == {[num |-> 3, den |-> 1], [num |-> 1, den |-> 1],
            [num |-> 1, den |-> 2]}

(* y = sdai_amount / ((yes_price * probability) / no_price                 *)
(*                    + (1 - probability))                                 *)
optimal_y(sdai_amount, m) == (sdai_amount * 2 * m.den) \div (m.num + m.den)

(* x = y * (yes_price / no_price) *)
optimal_x(y, m) == (y * m.num) \div m.den

(* direct_yes_amount = (x - y) * probability *)
direct_yes_amount(x, y) == (x - y) \div 2

(* merge_amount = min(gno_yes_amount, gno_no_amount), and before it a      *)
(* merge of the whole YES balance.                                         *)
merge_amount_of_yes_side(yes_amount, no_amount) == yes_amount

merge_amount(yes_amount, no_amount) == Min(yes_amount, no_amount)

(* `if merge_amount > 0:`, and before it a merge step that never merges.   *)
merge_needed_never(amount_to_merge) == FALSE

merge_needed(amount_to_merge) == amount_to_merge > 0

(* The dust threshold 0.000001 of the experimental routines, in the unit   *)
(* of the balances of SpecArb.                                             *)
DUST_TOLERANCE == 1

(* The estimate of what the remaining conditional tokens are worth, at     *)
(* final_probability = market_prices_final.get('probability', 0.5): the    *)
(* markets of the model have probability 1/2, which is also the value the  *)
(* summary falls back on when the market data has no probability.          *)
remaining_tokens_value(b, m) ==
    (b.gno_yes * m.num + b.gno_no * m.den + b.sdai_yes + b.sdai_no) \div 2

Log(step, ok, amt) == [step |-> step, ok |-> ok, amt |-> amt]

Move(b, from, to, amt_in, amt_out) ==
    [b EXCEPT ![from] = @ - amt_in, ![to] = @ + amt_out]

(* What a swap of amt may pay out.                                         *)
Received(amt) == {1, amt}

(* Whether an executor asked to move amt out of a balance can have         *)
(* succeeded (ok) or not: it cannot move what the wallet does not hold.    *)
Outcomes(have, amt) == {FALSE} \cup (IF amt > 0 /\ have >= amt THEN {TRUE} ELSE {})

(* How a call of the passthrough router ends for its transaction: it was   *)
(* not sent, or the wait for its receipt ended with a receipt (success,    *)
(* reverted) or expired with the transaction still pending.                *)
LegReceipts(ok) ==
    IF ok THEN {"success"} ELSE {"not_sent", "reverted", "expired"}

(* A router that returned as soon as the transaction was sent.             *)
in_flight_without_wait(in_flight, step, receipt) ==
    IF receipt = "not_sent" THEN in_flight ELSE in_flight \cup {step}

(* The transactions of the run that are pending once the call for `step`   *)
(* has ended.                                                              *)
in_flight_after(in_flight, step, receipt) ==
    IF receipt = "expired" THEN in_flight \cup {step} ELSE in_flight

(* arb after the call of a leg: how it ended, and which transactions were  *)
(* pending when it was made.                                               *)
LegDone(a, step, receipt) ==
    [a EXCEPT ![step] = IF receipt = "success" THEN "ok" ELSE "failed",
              !.receipts = Append(@, [step |-> step, receipt |-> receipt,
                                      in_flight |-> a.in_flight]),
              !.in_flight = in_flight_after(@, step, receipt)]

(* BalancerSwapHandler.swap_exact_in as the routines see it: the swap was  *)
(* not sent (a check, an approval or the quote failed), or it has a        *)
(* receipt; `success` is what the handler returns.                         *)
BalancerCalls(have, amt) ==
    {"not_sent", "reverted", "timeout"}
        \cup (IF amt > 0 /\ have >= amt THEN {"ok"} ELSE {})

balancer_call_success(outcome) ==
    IF outcome = "not_sent" THEN FALSE
    ELSE balancer_execution_result(outcome).success

InitArb ==
    /\ flow \in Flows
    /\ apc = "start"
    /\ bal \in [sdai : {2, 6, 8}, sdai_yes : {0}, sdai_no : {0}, gno : {0},
                gno_yes : {0}, gno_no : {0, 1}, wagno : {0, 1}]
    /\ \E a \in ArbAmounts :
          arb = [amount |-> a, initial |-> bal, x |-> 0, y |-> 0,
                 leg_yes |-> "none", leg_no |-> "none",
                 gno_yes_amount |-> None, gno_no_amount |-> None,
                 merge_amount |-> None,
                 receipts |-> <<>>, in_flight |-> {}]
    /\ txlog = <<>>
    /\ report = None
    /\ IdleLimit
    /\ IdleSwap
    /\ IdleExt

idleVars == <<lcall, swapVars, extVars>>

(* Both sell routines: the balance check, and in experimental/main.py the  *)
(* market prices that may be unavailable.                                  *)
ArbSellStart ==
    /\ flow \in {"sell_legacy", "sell_experimental"} /\ apc = "start"
    /\ IF bal.sdai < arb.amount
       THEN apc' = "done"
       ELSE \/ apc' = "buy_wagno"
            \/ flow = "sell_experimental" /\ apc' = "done"
    /\ UNCHANGED <<idleVars, flow, bal, arb, txlog, report>>

(* Step 1: buy waGNO with sDAI on Balancer; the run returns unless the     *)
(* handler reports success.  The handler's execution path never does (see  *)
(* balancer_execution_result), so the steps after this one are not         *)
(* reached and have no action here.                                        *)
ArbSellBuyWaGNO ==
    /\ flow \in {"sell_legacy", "sell_experimental"} /\ apc = "buy_wagno"
    /\ \E o \in BalancerCalls(bal.sdai, arb.amount), out \in Received(arb.amount) :
          /\ txlog' = Append(txlog, Log("buy_wagno", o = "ok", arb.amount))
          /\ bal' = IF o = "ok"
                    THEN Move(bal, "sdai", "wagno", arb.amount, out)
                    ELSE bal
          /\ apc' = IF balancer_call_success(o) THEN "unwrap" ELSE "done"
    /\ UNCHANGED <<idleVars, flow, arb, report>>

(* Buy routine: balance check, market prices, optimal amounts x and y.     *)
ArbBuyStart ==
    /\ flow = "buy_legacy" /\ apc = "start"
    /\ IF bal.sdai < arb.amount
       THEN apc' = "done" /\ UNCHANGED arb
       ELSE \E m \in Markets :
              /\ arb' = [arb EXCEPT
                     !.y = optimal_y(arb.amount, m),
                     !.x = optimal_x(optimal_y(arb.amount, m), m)]
              /\ apc' = "direct"
    /\ UNCHANGED <<idleVars, flow, bal, txlog, report>>

(* Step 3: if x > y, buy_sdai_yes(bot, direct_yes_amount); its outcome is  *)
(* not looked at.                                                          *)
ArbBuyDirectYes ==
    /\ flow = "buy_legacy" /\ apc = "direct"
    /\ IF arb.x > arb.y
       THEN LET d == direct_yes_amount(arb.x, arb.y)
            IN  \E ok \in Outcomes(bal.sdai, d), out \in Received(d) :
                  /\ txlog' = Append(txlog, Log("buy_sdai_yes", ok, d))
                  /\ bal' = IF ok THEN Move(bal, "sdai", "sdai_yes", d, out)
                            ELSE bal
       ELSE UNCHANGED <<txlog, bal>>
    /\ apc' = "split"
    /\ UNCHANGED <<idleVars, flow, arb, report>>

(* Step 4: bot.add_collateral('currency', y); on failure the run returns. *)
ArbBuySplit ==
    /\ flow = "buy_legacy" /\ apc = "split"
    /\ \E ok \in Outcomes(bal.sdai, arb.y) :
          /\ txlog' = Append(txlog, Log("split", ok, arb.y))
          /\ IF ok
             THEN /\ bal' = [bal EXCEPT !.sdai = @ - arb.y,
                                        !.sdai_yes = @ + arb.y,
                                        !.sdai_no = @ + arb.y]
                  /\ apc' = "excess"
             ELSE /\ apc' = "done"
                  /\ UNCHANGED bal
    /\ UNCHANGED <<idleVars, flow, arb, report>>

(* Step 5: if x < y, sell_sdai_yes(bot, y - x); its outcome is not looked  *)
(* at.                                                                     *)
ArbBuySellExcess ==
    /\ flow = "buy_legacy" /\ apc = "excess"
    /\ IF arb.x < arb.y
       THEN LET e == arb.y - arb.x
            IN  \E ok \in Outcomes(bal.sdai_yes, e), out \in Received(e) :
                  /\ txlog' = Append(txlog, Log("sell_sdai_yes", ok, e))
                  /\ bal' = IF ok THEN Move(bal, "sdai_yes", "sdai", e, out)
                            ELSE bal
       ELSE UNCHANGED <<txlog, bal>>
    /\ apc' = "leg_yes"
    /\ UNCHANGED <<idleVars, flow, arb, report>>

(* Step 6: buy GNO-YES with all sDAI-YES through the passthrough router;   *)
(* a failure is reported and the routine continues.                        *)
ArbBuyLegYes ==
    /\ flow = "buy_legacy" /\ apc = "leg_yes"
    /\ \E ok \in Outcomes(bal.sdai_yes, bal.sdai_yes),
          out \in Received(bal.sdai_yes) :
       \E receipt \in LegReceipts(ok) :
          /\ txlog' = Append(txlog, Log("leg_yes", ok, bal.sdai_yes))
          /\ bal' = IF ok
                    THEN Move(bal, "sdai_yes", "gno_yes", bal.sdai_yes, out)
                    ELSE bal
          /\ arb' = LegDone(arb, "leg_yes", receipt)
    /\ apc' = "leg_no"
    /\ UNCHANGED <<idleVars, flow, report>>

(* Step 7: buy GNO-NO with all sDAI-NO; a failure is reported and the      *)
(* routine continues.                                                      *)
ArbBuyLegNo ==
    /\ flow = "buy_legacy" /\ apc = "leg_no"
    /\ \E ok \in Outcomes(bal.sdai_no, bal.sdai_no),
          out \in Received(bal.sdai_no) :
       \E receipt \in LegReceipts(ok) :
          /\ txlog' = Append(txlog, Log("leg_no", ok, bal.sdai_no))
          /\ bal' = IF ok
                    THEN Move(bal, "sdai_no", "gno_no", bal.sdai_no, out)
                    ELSE bal
          /\ arb' = LegDone(arb, "leg_no", receipt)
    /\ apc' = "merge"
    /\ UNCHANGED <<idleVars, flow, report>>

(* Step 8: merge min(GNO-YES, GNO-NO) of the balances just re-read, if     *)
(* that is positive; a failed merge is reported and the routine continues. *)
ArbBuyMerge ==
    /\ flow = "buy_legacy" /\ apc = "merge"
    /\ LET m == merge_amount(bal.gno_yes, bal.gno_no)
       IN  /\ arb' = [arb EXCEPT !.gno_yes_amount = Some(bal.gno_yes),
                             !.gno_no_amount = Some(bal.gno_no),
                             !.merge_amount = Some(m)]
           /\ IF merge_needed(m)
              THEN \E ok \in BOOLEAN :
                     /\ txlog' = Append(txlog, Log("merge", ok, m))
                     /\ bal' = IF ok
                               THEN [bal EXCEPT !.gno_yes = @ - m,
                                                !.gno_no = @ - m,
                                                !.gno = @ + m]
                               ELSE bal
              ELSE UNCHANGED <<txlog, bal>>
    /\ apc' = "wrap"
    /\ UNCHANGED <<idleVars, flow, report>>

(* Step 9: wrap the whole GNO balance into waGNO. *)
ArbBuyWrap ==
    /\ flow = "buy_legacy" /\ apc = "wrap"
    /\ \E ok \in Outcomes(bal.gno, bal.gno) :
          /\ txlog' = Append(txlog, Log("wrap", ok, bal.gno))
          /\ bal' = IF ok THEN Move(bal, "gno", "wagno", bal.gno, bal.gno)
                    ELSE bal
    /\ apc' = "sell_wagno"
    /\ UNCHANGED <<idleVars, flow, arb, report>>

(* Step 10: sell the whole waGNO balance on Balancer, if there is any. *)
ArbBuySellWaGNO ==
    /\ flow = "buy_legacy" /\ apc = "sell_wagno"
    /\ IF bal.wagno > 0
       THEN \E o \in BalancerCalls(bal.wagno, bal.wagno),
               out \in Received(bal.wagno) :
              /\ txlog' = Append(txlog, Log("sell_wagno", o = "ok", bal.wagno))
              /\ bal' = IF o = "ok"
                        THEN Move(bal, "wagno", "sdai", bal.wagno, out)
                        ELSE bal
       ELSE UNCHANGED <<txlog, bal>>
    /\ apc' = "report"
    /\ UNCHANGED <<idleVars, flow, arb, report>>

(* The summary: final balances are read again and compared with the        *)
(* initial sDAI.                                                           *)
ArbBuyReport ==
    /\ flow = "buy_legacy" /\ apc = "report"
    /\ \E m \in Markets, has_probability \in BOOLEAN :
          LET value == remaining_tokens_value(bal, m)
          IN  report' = Some([initial_sdai |-> arb.initial.sdai,
                              final_sdai |-> bal.sdai,
                              profit_loss |-> bal.sdai - arb.initial.sdai,
                              balances |-> bal,
                              has_probability |-> has_probability,
                              total_profit_loss |->
                                 IF value > 0
                                 THEN Some(bal.sdai + value
                                           - arb.initial.sdai)
                                 ELSE None])
    /\ apc' = "done"
    /\ UNCHANGED <<idleVars, flow, bal, arb, txlog>>

NextArb ==
    \/ ArbSellStart \/ ArbSellBuyWaGNO
    \/ ArbBuyStart \/ ArbBuyDirectYes \/ ArbBuySplit \/ ArbBuySellExcess
    \/ ArbBuyLegYes \/ ArbBuyLegNo \/ ArbBuyMerge \/ ArbBuyWrap
    \/ ArbBuySellWaGNO \/ ArbBuyReport

SpecArb == InitArb /\ [][NextArb]_vars

----------------------------------------------------------------------------
(* Properties of an arbitrage run.                                         *)

LegTwoFailedAfterLegOne == arb.leg_yes = "ok" /\ arb.leg_no = "failed"

MergeAttempted == \E i \in 1..Len(txlog) : txlog[i].step = "merge"

C2_EveryRunEndsWithReport ==
    (flow # "none" /\ apc = "done" /\ txlog # <<>>) => report # None

----------------------------------------------------------------------------
(* ConditionalTokenModel.split_position / merge_position and the           *)
(* TradingController command that wraps merge_position.                    *)
(*                                                                         *)
(* SpecTokens runs a plan of calls (a merge, a split followed by a merge,  *)
(* or the controller's merge command) against the holdings of one token    *)
(* family: the base token and its YES and NO tokens.  Amounts are in wei.  *)

TokenSymbols == {"sDAI", "GNO", "other"}

(* -1 stands for an amount w3.to_wei rejects with ValueError.              *)
TokenAmounts == {-1, 0, 3, 5}

Plans ==
    {<<"merge">>, <<"split", "merge">>, <<"controller_merge">>,
     <<"wrap">>, <<"balancer_swap">>}

StartPc(op) == IF op = "controller_merge" THEN "pair_check" ELSE "check"

CtmEv(kind, status, amt) == [kind |-> kind, status |-> status, amt |-> amt]

(* What a call hands back: the (success, tx_hash) pair of the model's      *)
(* methods; the controller's command prints and returns nothing.           *)
CtmResult(success, tx_hash) ==
    [op |-> Head(ctm_plan), success |-> success, tx_hash |-> tx_hash,
     value |-> IF Head(ctm_plan) = "controller_merge" THEN "none"
               ELSE IF Head(ctm_plan) \in {"wrap", "balancer_swap"}
                    THEN "hash_or_dict"
               ELSE "pair",
     amount |-> ctm_call.amount, before |-> holdings]

CtmReturn(success, tx_hash) ==
    /\ ctm_results' = Append(ctm_results, CtmResult(success, tx_hash))
    /\ ctm_plan' = Tail(ctm_plan)
    /\ ctm_pc' = IF Tail(ctm_plan) = <<>> THEN "done"
                 ELSE StartPc(Head(Tail(ctm_plan)))

(* The test `yes_balance < amount_wei or no_balance < amount_wei` of       *)
(* merge_position, and before it the test that looks at the YES side only. *)
merge_balance_short_yes_only(yes_balance, no_balance, amount_wei) ==
    yes_balance < amount_wei

merge_balance_short(yes_balance, no_balance, amount_wei) ==
    yes_balance < amount_wei \/ no_balance < amount_wei

(* `if receipt['status'] == 1` after a split or merge transaction, and     *)
(* before it a test that takes any mined transaction for a success.        *)
receipt_success_if_mined(status) == status # "timeout"

receipt_success(status) == status = "ok"

(* On-chain effect of splitPosition and mergePositions of the futarchy     *)
(* router: a split of a mints a of YES and a of NO for a of the base       *)
(* token; a merge burns a of each and pays a of the base token less at     *)
(* most one unit of rounding.                                              *)
SplitReceipts(amt) ==
    {"reverted", "timeout"} \cup
    (IF holdings.base >= amt /\ router_allowance.base >= amt
     THEN {"ok"} ELSE {})

MergeReceipts(amt) ==
    [status : {"reverted", "timeout"}, paid : {0}] \cup
    (IF /\ holdings.yes >= amt /\ holdings.no >= amt
        /\ router_allowance.yes >= amt /\ router_allowance.no >= amt
     THEN [status : {"ok"}, paid : {a \in {amt, amt - 1} : a >= 0}]
     ELSE {})

InitTokens ==
    /\ ctm_plan \in Plans
    /\ ctm_pc = StartPc(Head(ctm_plan))
    /\ ctm_call \in [symbol : TokenSymbols, amount : TokenAmounts,
                     simulate : BOOLEAN, account : BOOLEAN]
    /\ holdings \in [base : {0, 5}, yes : {0, 3, 5}, no : {0, 3, 5}]
    /\ router_allowance \in [base : {0, max_approve_amount},
                             yes : {0, max_approve_amount},
                             no : {0, max_approve_amount}]
    /\ ctm_trace = <<>>
    /\ ctm_results = <<>>
    /\ IdleLimit
    /\ IdleSwap
    /\ IdleArb
    /\ IdleExcept("tokens")

ctmIdle == <<lcall, swapVars, arbVars, recVars, simVars, sellVars>>

(* Whether a call sends the approval of the router: `needs_approval` and   *)
(* not `simulate`; before it the test that does not look at `simulate`.    *)
approval_sent_in_simulation(token_allowance, amount_wei, simulate_flag) ==
    token_allowance < amount_wei

approval_sent(token_allowance, amount_wei, simulate_flag) ==
    token_allowance < amount_wei /\ ~simulate_flag

(* bot.approve_token for one of the family's tokens.                       *)
CtmApprove(token, status) ==
    /\ ctm_trace' = Append(ctm_trace,
                           CtmEv("approve_" \o token, status, ctm_call.amount))
    /\ router_allowance' =
          IF status = "ok"
          THEN [router_allowance EXCEPT ![token] = ctm_call.amount]
          ELSE router_allowance

(* split_position: account, symbol, amount and balance checks.             *)
SplitCheck ==
    /\ ctm_plan # <<>> /\ Head(ctm_plan) = "split" /\ ctm_pc = "check"
    /\ IF \/ ~ctm_call.account
          \/ ctm_call.symbol \notin {"sDAI", "GNO"}
          \/ ctm_call.amount < 0
          \/ holdings.base < ctm_call.amount
       THEN CtmReturn(FALSE, FALSE)
       ELSE ctm_pc' = "approve" /\ UNCHANGED <<ctm_plan, ctm_results>>
    /\ UNCHANGED <<ctmIdle, ctm_call, holdings, router_allowance, ctm_trace>>

(* split_position: approval of the router, and the simulation checkpoint.  *)
SplitApprove ==
    /\ ctm_plan # <<>> /\ Head(ctm_plan) = "split" /\ ctm_pc = "approve"
    /\ IF ctm_call.simulate
       THEN /\ CtmReturn(TRUE, FALSE)
            /\ UNCHANGED <<router_allowance, ctm_trace>>
       ELSE IF router_allowance.base < ctm_call.amount
            THEN \E status \in Statuses :
                   /\ CtmApprove("base", status)
                   /\ IF status = "ok"
                      THEN /\ ctm_pc' = "send"
                           /\ UNCHANGED <<ctm_plan, ctm_results>>
                      ELSE CtmReturn(FALSE, FALSE)
            ELSE /\ ctm_pc' = "send"
                 /\ UNCHANGED <<ctm_plan, ctm_results, router_allowance,
                                ctm_trace>>
    /\ UNCHANGED <<ctmIdle, ctm_call, holdings>>

(* split_position: the splitPosition transaction and its receipt.          *)
SplitSend ==
    /\ ctm_plan # <<>> /\ Head(ctm_plan) = "split" /\ ctm_pc = "send"
    /\ \E status \in SplitReceipts(ctm_call.amount) :
          /\ ctm_trace' = Append(ctm_trace,
                                 CtmEv("split", status, ctm_call.amount))
          /\ IF status = "ok"
             THEN /\ holdings' = [base |-> holdings.base - ctm_call.amount,
                                  yes |-> holdings.yes + ctm_call.amount,
                                  no |-> holdings.no + ctm_call.amount]
                  /\ router_allowance' =
                        IF router_allowance.base = max_approve_amount
                        THEN router_allowance
                        ELSE [router_allowance EXCEPT
                                 !.base = @ - ctm_call.amount]
             ELSE UNCHANGED <<holdings, router_allowance>>
          /\ CtmReturn(receipt_success(status), status # "timeout")
    /\ UNCHANGED <<ctmIdle, ctm_call>>

InMerge ==
    ctm_plan # <<>> /\ Head(ctm_plan) \in {"merge", "controller_merge"}

(* TradingController.merge_conditional_token: the pair balance check.      *)
ControllerPairCheck ==
    /\ ctm_plan # <<>> /\ Head(ctm_plan) = "controller_merge"
    /\ ctm_pc = "pair_check"
    /\ IF \/ ctm_call.symbol \notin {"sDAI", "GNO"}
          \/ ~(holdings.yes >= ctm_call.amount)
          \/ ~(holdings.no >= ctm_call.amount)
       THEN CtmReturn(FALSE, FALSE)
       ELSE ctm_pc' = "check" /\ UNCHANGED <<ctm_plan, ctm_results>>
    /\ UNCHANGED <<ctmIdle, ctm_call, holdings, router_allowance, ctm_trace>>

(* merge_position: account, symbol, amount and YES/NO balance checks.      *)
MergeCheck ==
    /\ InMerge /\ ctm_pc = "check"
    /\ IF \/ ~ctm_call.account
          \/ ctm_call.symbol \notin {"sDAI", "GNO"}
          \/ ctm_call.amount < 0
          \/ merge_balance_short(holdings.yes, holdings.no, ctm_call.amount)
       THEN CtmReturn(FALSE, FALSE)
       ELSE ctm_pc' = "approve_yes" /\ UNCHANGED <<ctm_plan, ctm_results>>
    /\ UNCHANGED <<ctmIdle, ctm_call, holdings, router_allowance, ctm_trace>>

(* merge_position: approval of the router for one side.                    *)
MergeApproveSide(token, at, next) ==
    /\ InMerge /\ ctm_pc = at
    /\ IF approval_sent(router_allowance[token], ctm_call.amount,
                        ctm_call.simulate)
       THEN \E status \in Statuses :
              /\ CtmApprove(token, status)
              /\ IF status = "ok"
                 THEN ctm_pc' = next /\ UNCHANGED <<ctm_plan, ctm_results>>
                 ELSE CtmReturn(FALSE, FALSE)
       ELSE /\ ctm_pc' = next
            /\ UNCHANGED <<ctm_plan, ctm_results, router_allowance,
                           ctm_trace>>
    /\ UNCHANGED <<ctmIdle, ctm_call, holdings>>

MergeApproveYes == MergeApproveSide("yes", "approve_yes", "approve_no")

MergeApproveNo == MergeApproveSide("no", "approve_no", "send")

(* merge_position: the simulation checkpoint, then the mergePositions      *)
(* transaction and its receipt.                                            *)
MergeSend ==
    /\ InMerge /\ ctm_pc = "send"
    /\ IF ctm_call.simulate
       THEN /\ CtmReturn(TRUE, FALSE)
            /\ UNCHANGED <<holdings, router_allowance, ctm_trace>>
       ELSE \E r \in MergeReceipts(ctm_call.amount) :
              /\ ctm_trace' = Append(ctm_trace,
                                 CtmEv("merge", r.status, ctm_call.amount))
              /\ IF r.status = "ok"
                 THEN /\ holdings' = [base |-> holdings.base + r.paid,
                                      yes |-> holdings.yes - ctm_call.amount,
                                      no |-> holdings.no - ctm_call.amount]
                      /\ router_allowance' =
                            [t \in {"base", "yes", "no"} |->
                               IF t = "base" \/
                                  router_allowance[t] = max_approve_amount
                               THEN router_allowance[t]
                               ELSE router_allowance[t] - ctm_call.amount]
                 ELSE UNCHANGED <<holdings, router_allowance>>
              /\ CtmReturn(receipt_success(r.status), r.status # "timeout")
    /\ UNCHANGED <<ctmIdle, ctm_call>>

(* AaveBalancerHandler.wrap_gno_to_wagno, the whole call: balance check,   *)
(* the simulation return, the approval of the waGNO contract, the deposit  *)
(* transaction and its receipt.  `success` is whether the call returned a  *)
(* transaction hash or a dictionary with success True.                     *)
WrapGnoToWagno ==
    /\ ctm_plan # <<>> /\ Head(ctm_plan) = "wrap" /\ ctm_pc = "check"
    /\ IF ctm_call.amount < 0 \/ holdings.base < ctm_call.amount
       THEN CtmReturn(FALSE, FALSE) /\ UNCHANGED <<holdings, ctm_trace>>
       ELSE IF ctm_call.simulate
       THEN CtmReturn(TRUE, FALSE) /\ UNCHANGED <<holdings, ctm_trace>>
       ELSE \E approve, deposit \in Statuses :
              IF approve # "ok"
              THEN /\ ctm_trace' = Append(ctm_trace,
                          CtmEv("approve_wagno", approve, ctm_call.amount))
                   /\ CtmReturn(FALSE, FALSE)
                   /\ UNCHANGED holdings
              ELSE /\ ctm_trace' = ctm_trace \o
                          <<CtmEv("approve_wagno", "ok", ctm_call.amount),
                            CtmEv("wrap", deposit, ctm_call.amount)>>
                   /\ holdings' = IF deposit = "ok"
                                  THEN [holdings EXCEPT
                                           !.base = @ - ctm_call.amount]
                                  ELSE holdings
                   /\ CtmReturn(deposit = "ok", deposit = "ok")
    /\ UNCHANGED <<ctmIdle, ctm_call, router_allowance>>

(* BalancerSwapHandler.swap_exact_in, the whole call.  With simulate the   *)
(* call ends after querySwapExactIn: success with the quoted amount, or    *)
(* without one after a SwapDeadline error, failure after any other error.  *)
(* Without it the transactions of the execution path follow, each sent     *)
(* only if the one before it was mined with status 1; a negative amount    *)
(* makes to_wei raise before the balance is read.                          *)
BalancerSwapExactIn ==
    /\ ctm_plan # <<>> /\ Head(ctm_plan) = "balancer_swap"
    /\ ctm_pc = "check"
    /\ IF ctm_call.amount < 0 \/ holdings.base < ctm_call.amount
       THEN CtmReturn(FALSE, FALSE) /\ UNCHANGED <<holdings, ctm_trace>>
       ELSE IF ctm_call.simulate
       THEN /\ \E query \in {"ok", "SwapDeadline", "error"} :
                  CtmReturn(query # "error", FALSE)
            /\ UNCHANGED <<holdings, ctm_trace>>
       ELSE \E permit2_needed, query_ok \in BOOLEAN,
               permit2, router, swap \in Statuses :
              LET a == ctm_call.amount
                  t1 == IF permit2_needed
                        THEN <<CtmEv("approve_permit2", permit2,
                                     max_approve_amount)>>
                        ELSE <<>>
                  ok1 == ~permit2_needed \/ permit2 = "ok"
                  t2 == IF ok1 /\ query_ok
                        THEN <<CtmEv("approve_router", router, a)>>
                        ELSE <<>>
                  ok2 == ok1 /\ query_ok /\ router = "ok"
                  t3 == IF ok2 THEN <<CtmEv("swap", swap, a)>> ELSE <<>>
                  mined == ok2 /\ swap = "ok"
              IN  /\ ctm_trace' = ctm_trace \o t1 \o t2 \o t3
                  /\ holdings' = IF mined
                                 THEN [holdings EXCEPT !.base = @ - a]
                                 ELSE holdings
                  /\ CtmReturn(
                        ok2 /\ balancer_execution_result(swap).success,
                        FALSE)
    /\ UNCHANGED <<ctmIdle, ctm_call, router_allowance>>

NextTokens ==
    \/ SplitCheck \/ SplitApprove \/ SplitSend
    \/ ControllerPairCheck \/ MergeCheck
    \/ MergeApproveYes \/ MergeApproveNo \/ MergeSend
    \/ WrapGnoToWagno \/ BalancerSwapExactIn

SpecTokens == InitTokens /\ [][NextTokens]_vars

MergeResults ==
    {i \in 1..Len(ctm_results) :
        ctm_results[i].op \in {"merge", "controller_merge"}}

(* C11: whenever a merge call finds the YES or the NO balance below the    *)
(* merge amount, it returns failure and has submitted no transaction,      *)
(* neither an approval nor mergePositions.                                 *)
C11_MergeRejectsShortBalance ==
    \A i \in MergeResults :
       LET r == ctm_results[i]
       IN  (r.before.yes < r.amount \/ r.before.no < r.amount)
           => /\ ~r.success /\ ~r.tx_hash
              /\ \A j \in 1..Len(ctm_trace) :
                    ctm_trace[j].kind \notin {"approve_yes", "approve_no",
                                              "merge"}

C11_Witness ==
    /\ ctm_pc = "done" /\ Len(ctm_results) = 1
    /\ ctm_results[1].op = "merge" /\ ctm_call.account
    /\ ctm_call.symbol = "sDAI" /\ ~ctm_call.simulate
    /\ ctm_call.amount = 5 /\ holdings.yes = 5 /\ holdings.no = 3
    /\ ~ctm_results[1].success /\ ctm_trace = <<>>

----------------------------------------------------------------------------
(* Claims on the merge step of the arbitrage routines.                     *)

----------------------------------------------------------------------------
(* The balancing ("reconcile") step of the arbitrage routines, and the     *)
(* merge and the summary that follow it in the sell routines.              *)
(*                                                                         *)
(* SpecReconcile starts where the step starts: the conditional-pool legs   *)
(* are over (sell routines) or the split is done (buy routine of           *)
(* experimental/main.py) and the routine re-reads the balances.  `rec`     *)
(* holds what the routine recorded before: the balances at the start of    *)
(* the run.  rec.calls is the number of times the step is run in a row.    *)
(* Balances are in units of 0.000001 token.                                *)

Routines == {"sell_legacy", "sell_experimental", "buy_experimental"}

(* The sDAI-YES pool: num/den sDAI per sDAI-YES; `read` is whether         *)
(* bot.get_sdai_yes_pool_price() returns a price.                          *)
YesPools == [num : {1}, den : {1, 2}, read : BOOLEAN]

(* The corrective trade the step decides on: sell `amount` sDAI-YES, buy   *)
(* sDAI-YES with `amount` sDAI, or none.  main.py compares the balances    *)
(* just read; the routines of experimental/main.py compare what was        *)
(* gained since the start of the run, and the buy routine trades half the  *)
(* difference if that is above the dust threshold.                         *)
reconcile_trade(routine, b, initial, pool) ==
    LET yes == IF routine = "sell_legacy" THEN b.yes ELSE b.yes - initial.yes
        no == IF routine = "sell_legacy" THEN b.no ELSE b.no - initial.no
        difference == IF yes > no THEN yes - no ELSE no - yes
        Trade(side, amt) == [side |-> side, amount |-> amt]
    IN  IF routine = "buy_experimental"
        THEN LET amount_to_balance == difference \div 2
                 sdai_needed_for_buy ==
                     MulDiv(amount_to_balance, pool.num, pool.den)
             IN  IF ~(amount_to_balance > DUST_TOLERANCE) \/ ~pool.read
                 THEN Trade("none", 0)
                 ELSE IF yes > no THEN Trade("sell", amount_to_balance)
                 ELSE IF b.sdai >= sdai_needed_for_buy
                      THEN Trade("buy", sdai_needed_for_buy)
                      ELSE Trade("none", 0)
        ELSE IF yes > no THEN Trade("sell", difference)
             ELSE IF no > yes
                  THEN IF b.sdai >= difference THEN Trade("buy", difference)
                       ELSE Trade("none", 0)
                  ELSE Trade("none", 0)

(* The balances after a trade of the sDAI-YES pool that went through.      *)
AfterTrade(b, t, pool) ==
    CASE t.side = "sell" ->
           [b EXCEPT !.yes = @ - t.amount,
                     !.sdai = @ + MulDiv(t.amount, pool.num, pool.den)]
      [] t.side = "buy" ->
           [b EXCEPT !.sdai = @ - t.amount,
                     !.yes = @ + MulDiv(t.amount, pool.den, pool.num)]
      [] OTHER -> b

InitReconcile ==
    /\ rpc = "balance"
    /\ rbal \in [sdai : {0, 3, 20}, yes : {0, 4, 5, 10}, no : {0, 4, 10}]
    /\ rec \in [routine : Routines, pool : YesPools, calls : {1, 2},
                initial : [sdai : {8}, yes : {0, 6}, no : {0, 6}]]
    /\ rec.initial.yes <= rbal.yes /\ rec.initial.no <= rbal.no
    /\ rlog = <<>>
    /\ rreport = None
    /\ IdleLimit
    /\ IdleSwap
    /\ IdleArb
    /\ IdleExcept("reconcile")

recIdle == <<lcall, swapVars, arbVars, ctmVars, simVars, sellVars>>

(* Step 6 (steps 4 & 5 of the buy routine): re-read the balances, decide   *)
(* on the corrective trade and attempt it; a failed trade is reported and  *)
(* the routine goes on.                                                    *)
RecBalance ==
    /\ rpc = "balance"
    /\ LET t == reconcile_trade(rec.routine, rbal, rec.initial, rec.pool)
           have == IF t.side = "sell" THEN rbal.yes ELSE rbal.sdai
       IN  \E ok \in (IF t.side = "none" THEN {FALSE}
                      ELSE Outcomes(have, t.amount)) :
              /\ rbal' = IF ok THEN AfterTrade(rbal, t, rec.pool) ELSE rbal
              /\ rlog' = Append(rlog, [step |-> "reconcile", side |-> t.side,
                                       amt |-> t.amount, ok |-> ok,
                                       before |-> rbal, after |-> rbal'])
    /\ rec' = [rec EXCEPT !.calls = @ - 1]
    /\ rpc' = IF rec.calls > 1 THEN "balance"
              ELSE IF rec.routine = "buy_experimental" THEN "legs"
              ELSE "merge"
    /\ UNCHANGED <<recIdle, rreport>>

(* Step 7 of the sell routines: merge min(sDAI-YES, sDAI-NO) of the        *)
(* balances re-read after balancing, if it is positive (main.py) or above  *)
(* the dust threshold (experimental/main.py); a failed merge is reported   *)
(* and the routine goes on to the summary.                                 *)
RecMerge ==
    /\ rpc = "merge"
    /\ LET m == merge_amount(rbal.yes, rbal.no)
           wanted == IF rec.routine = "sell_legacy" THEN merge_needed(m)
                     ELSE m > DUST_TOLERANCE
       IN  IF wanted
           THEN \E ok \in BOOLEAN :
                  /\ rbal' = IF ok
                             THEN [sdai |-> rbal.sdai + m, yes |-> rbal.yes - m,
                                   no |-> rbal.no - m]
                             ELSE rbal
                  /\ rlog' = Append(rlog, [step |-> "merge", side |-> "none",
                                           amt |-> m, ok |-> ok,
                                           before |-> rbal, after |-> rbal'])
           ELSE UNCHANGED <<rbal, rlog>>
    /\ rpc' = "report"
    /\ UNCHANGED <<recIdle, rec, rreport>>

(* Step 8 of the sell routines: the summary.  Both print the direct        *)
(* profit/loss, final sDAI less initial sDAI.  experimental/main.py then   *)
(* lists the remaining conditional-token balances.  main.py then           *)
(* evaluates `remaining_tokens_value`, a name the routine never binds:     *)
(* the NameError ends the routine before anything about the remaining      *)
(* tokens is printed.                                                      *)
RecReport ==
    /\ rpc = "report"
    /\ rreport' = Some([initial_sdai |-> rec.initial.sdai,
                        final_sdai |-> rbal.sdai,
                        profit_loss |-> rbal.sdai - rec.initial.sdai,
                        residual |-> IF rec.routine = "sell_legacy" THEN None
                                     ELSE Some([yes |-> rbal.yes,
                                                no |-> rbal.no]),
                        completed |-> rec.routine # "sell_legacy"])
    /\ rpc' = "done"
    /\ UNCHANGED <<recIdle, rec, rbal, rlog>>

NextReconcile == RecBalance \/ RecMerge \/ RecReport

SpecReconcile == InitReconcile /\ [][NextReconcile]_vars

(* C13: when the step finds 10 sDAI-YES and 4 sDAI-NO it sells 6 sDAI-YES  *)
(* (no merge has been submitted yet), and when that sale goes through it   *)
(* leaves 4 sDAI-YES and 4 sDAI-NO.                                        *)
C13_ScenarioB ==
    (rlog # <<>> /\ rlog[1].before.yes = 10 /\ rlog[1].before.no = 4) =>
        /\ rlog[1].step = "reconcile" /\ rlog[1].side = "sell"
        /\ rlog[1].amt = 6
        /\ rlog[1].ok => (rlog[1].after.yes = 4 /\ rlog[1].after.no = 4)

(* C14: when the step is run twice in a row and the trade of the first     *)
(* run, if it decided on one, went through, the second run submits no      *)
(* trade.                                                                  *)
C14_ReconcileIdempotent ==
    (/\ Len(rlog) >= 2
     /\ rlog[1].step = "reconcile" /\ rlog[2].step = "reconcile"
     /\ rlog[1].side # "none" => rlog[1].ok)
        => rlog[2].side = "none"

(* C15: with diff the sDAI-YES balance less the sDAI-NO balance the step   *)
(* finds, it sells sDAI-YES only if diff is above the dust tolerance,      *)
(* buys sDAI-YES only if diff is below minus the tolerance and the sDAI    *)
(* balance covers the purchase, and submits no trade when diff is within   *)
(* the tolerance.                                                          *)
C15_TradeOnlyBeyondTolerance ==
    \A i \in 1..Len(rlog) :
       rlog[i].step = "reconcile" =>
          LET diff == rlog[i].before.yes - rlog[i].before.no
          IN  /\ rlog[i].side = "sell" => diff > DUST_TOLERANCE
              /\ rlog[i].side = "buy" =>
                    /\ diff < -DUST_TOLERANCE
                    /\ rlog[i].before.sdai >= rlog[i].amt
              /\ (diff <= DUST_TOLERANCE /\ -diff <= DUST_TOLERANCE)
                    => rlog[i].side = "none"

(* C16: when the corrective trade failed, the routine still goes on to     *)
(* the merge step and to the summary, and the summary is completed and     *)
(* lists the sDAI-YES and sDAI-NO balances that remain.                    *)
C16_BestEffortWithResidual ==
    (rlog # <<>> /\ rlog[1].side # "none" /\ ~rlog[1].ok) =>
        /\ rpc \in {"balance", "merge", "report", "done", "legs"}
        /\ rpc = "done" =>
              /\ rreport # None
              /\ Val(rreport).completed
              /\ Val(rreport).residual =
                    Some([yes |-> rbal.yes, no |-> rbal.no])

----------------------------------------------------------------------------
----------------------------------------------------------------------------
(* C18: the summary's profit/loss is the sDAI balance re-read at the end   *)
(* less the sDAI balance at the start of the run, and the value of the     *)
(* remaining conditional tokens enters a profit/loss figure only when the  *)
(* market data gave a probability to value them with.                      *)
C18_ReportRealizedProfit ==
    (flow # "none" /\ report # None) =>
        /\ Val(report).final_sdai = bal.sdai
        /\ Val(report).profit_loss = bal.sdai - arb.initial.sdai
        /\ Val(report).total_profit_loss # None => Val(report).has_probability

----------------------------------------------------------------------------
(* SpecSim: the calls of the Tenderly clients, of                          *)
(* SwaprV3Handler.simulate_swap_exact_in and of TradingController.buy_gno. *)
(* Each call is one action, made from the state after construction; `sim`  *)
(* records the call's inputs and how it ended: a returned value (None, or Some of a value) or an exception      *)
(* that left the function.                                                 *)

(* The number of transactions simulate_swap_exact_in sends in one bundle.  *)
BundleSize == 3

(* What the body of an HTTP response decodes to: not JSON at all, an       *)
(* object with an "error" entry, {"simulation_results": null}, or one of   *)
(* the three shapes that carry `results` per-transaction results.          *)
Bodies ==
    [kind : {"undecodable", "error", "null_results"}, results : {0}]
    \cup [kind : {"simulation_results", "results", "list"},
          results : 0..BundleSize]

(* What the server does with a request: the connection fails, the server   *)
(* stays silent ("timeout"), or it answers with a status code and a body.  *)
Responses ==
    [transport : {"connection_error", "timeout"}, status : {0},
     body : {[kind |-> "none", results |-> 0]}]
    \cup [transport : {"ok"}, status : {200, 500}, body : Bodies]

Returns(value) == [kind |-> "return", value |-> value]

(* The call has not returned: it waits for an answer that does not come.   *)
Blocks == [kind |-> "blocked", value |-> None]

(* The default of the `timeout` parameter of the clients, in seconds.      *)
RequestTimeout == 60

(* requests.post(url, ..., timeout=timeout) against a server whose         *)
(* behaviour is r.  A server that does not answer ends the call with a     *)
(* Timeout exception when a timeout was passed; without one the call       *)
(* waits for as long as the server is silent.                              *)
requests_post(r, timeout) ==
    IF r.transport = "timeout" /\ timeout = None
    THEN [r EXCEPT !.transport = "blocked"]
    ELSE r

Raises(exception) == [kind |-> "raise", value |-> Some(exception)]

(* A dictionary with a 'success' entry and, possibly, an 'error' entry.    *)
ResultDict(success, error) ==
    [kind |-> "result", success |-> success, error |-> error]

(* TenderlySimulationClient.simulate_bundle (services/tenderly_client.py). *)
simulate_bundle(transactions, r) ==
    IF transactions = 0 THEN Returns(None)
    ELSE IF r.transport # "ok" THEN Returns(None)
    ELSE IF r.status >= 400 THEN Returns(None)
    ELSE IF r.body.kind \in {"simulation_results", "list"}
         THEN Returns(Some([kind |-> "list", results |-> r.body.results]))
    ELSE Returns(None)

(* TenderlyAPIClient.simulate_bundle (exchanges/swapr/tenderly_api.py):    *)
(* _post_request does not look at the status code, and the list is read    *)
(* from the 'results' entry of the body.                                   *)
api_simulate_bundle(transactions, r) ==
    IF r.transport # "ok" THEN Returns(None)
    ELSE IF r.body.kind \in {"undecodable", "null_results", "error"}
         THEN Returns(None)
    ELSE IF r.body.kind = "results"
         THEN Returns(Some([kind |-> "list", results |-> r.body.results]))
    ELSE Returns(None)

(* TenderlyClient.simulate (exchanges/swapr_v2/tenderly_api.py):           *)
(* requests.post is called without a timeout and outside any try block,    *)
(* and whatever the body decodes to is returned.                           *)
simulate(txs, r) ==
    IF r.transport = "blocked" THEN Blocks
    ELSE IF r.transport # "ok" THEN Raises("RequestException")
    ELSE IF r.body.kind = "undecodable" THEN Returns(None)
    ELSE Returns(Some(r.body))

(* SwaprV3Handler.simulate_swap_exact_in.  The handler's client is a       *)
(* TenderlySimulationClient, which has no encode_and_build_transaction:    *)
(* building the first transaction of the bundle raises AttributeError.     *)
simulate_swap_exact_in(has_client, pool_address) ==
    IF ~has_client
    THEN Returns(Some(ResultDict(FALSE, "Tenderly client not initialized")))
    ELSE IF pool_address = None THEN Raises("ValueError")
    ELSE Raises("AttributeError")

(* The test between the two steps of buy_gno and of sell_gno, first        *)
(* without the look at the amount received, then as it is; and the model   *)
(* calls the flow makes: none after a failed balance check, the first      *)
(* step alone when it failed or brought nothing, else both.                *)
second_step_attempted_any_amount(first_success, received) == first_success

second_step_attempted(first_success, received) == first_success /\ received > 0

two_steps(first, second, balance_ok, first_success, received) ==
    IF ~balance_ok THEN <<>>
    ELSE IF second_step_attempted(first_success, received)
    THEN <<first, second>>
    ELSE <<first>>

(* TradingController.buy_gno: every path ends in a bare return; what the   *)
(* call came to is only displayed.  In a simulation the amount received    *)
(* is swap_result.get('simulated_amount_out_wei', 0).                      *)
buy_gno(simulate_flag, balance_ok, swap_result, unwrap_result) ==
    LET wagno_received ==
            IF swap_result.simulated_amount_out_wei = None THEN 0
            ELSE Val(swap_result.simulated_amount_out_wei)
    IN  [out |-> Returns(None),
         would_receive |-> IF balance_ok /\ swap_result.success
                           THEN Some(wagno_received) ELSE None,
         steps |-> two_steps("swap", "unwrap", balance_ok,
                             swap_result.success, wagno_received),
         displayed |-> IF /\ balance_ok /\ swap_result.success
                          /\ wagno_received > 0 /\ unwrap_result.success
                       THEN "completed" ELSE "error"]

(* TradingController.sell_gno: the wrap, then the swap of what the wrap    *)
(* reports, the amount it was called with.                                 *)
sell_gno(gno_amount, balance_ok, wrap_result, swap_result) ==
    [out |-> Returns(None),
     would_receive |-> IF balance_ok /\ wrap_result.success
                       THEN Some(gno_amount) ELSE None,
     steps |-> two_steps("wrap", "swap", balance_ok, wrap_result.success,
                         gno_amount),
     displayed |-> IF /\ balance_ok /\ wrap_result.success
                      /\ gno_amount > 0 /\ swap_result.success
                   THEN "completed" ELSE "error"]

InitSim ==
    /\ sim = None
    /\ IdleLimit /\ IdleSwap /\ IdleArb /\ IdleExcept("sim")

simIdle == <<lcall, swapVars, arbVars, ctmVars, recVars, sellVars>>

ClientCall(component, transactions, r, out) ==
    /\ sim = None
    /\ sim' = Some([component |-> component, transactions |-> transactions,
                    response |-> r, out |-> out])
    /\ UNCHANGED simIdle

SimulateBundle ==
    \E transactions \in {0, BundleSize}, r \in Responses :
        ClientCall("simulate_bundle", transactions, r,
                   simulate_bundle(transactions,
                       requests_post(r, Some(RequestTimeout))))

ApiSimulateBundle ==
    \E r \in Responses :
        ClientCall("api_simulate_bundle", BundleSize, r,
                   api_simulate_bundle(BundleSize,
                       requests_post(r, Some(RequestTimeout))))

Simulate ==
    \E r \in Responses :
        ClientCall("simulate", 1, r, simulate(1, requests_post(r, None)))

SimulateSwapExactIn ==
    /\ sim = None
    /\ \E has_client \in BOOLEAN, pool_address \in {None, Some("pool")} :
          sim' = Some([component |-> "simulate_swap_exact_in",
                       has_client |-> has_client,
                       pool_address |-> pool_address,
                       out |-> simulate_swap_exact_in(has_client,
                                                      pool_address)])
    /\ UNCHANGED simIdle

(* The results of the swap and unwrap models are dictionaries; a swap      *)
(* that is executed, not simulated, fails in BalancerSwapHandler, and a    *)
(* simulated one succeeds with the amount of the query or, after a         *)
(* SwapDeadline error, with no amount at all.                              *)
BuyGno ==
    /\ sim = None
    /\ \E simulate_flag, balance_ok \in BOOLEAN,
          swap_success \in BOOLEAN,
          simulated_amount_out_wei \in {None, Some(0), Some(2)},
          unwrap_result \in
              {ResultDict(TRUE, "none"), ResultDict(FALSE, "message")} :
          /\ swap_success => simulate_flag
          /\ ~swap_success => simulated_amount_out_wei = None
          /\ LET swap_result ==
                     [kind |-> "result", success |-> swap_success,
                      error |-> IF swap_success THEN "none" ELSE "error",
                      simulated_amount_out_wei |-> simulated_amount_out_wei]
                 call == buy_gno(simulate_flag, balance_ok, swap_result,
                                 unwrap_result)
             IN  sim' = Some([component |-> "buy_gno",
                              simulate |-> simulate_flag,
                              balance_ok |-> balance_ok,
                              swap_result |-> swap_result,
                              unwrap_result |-> unwrap_result,
                              out |-> call.out,
                              would_receive |-> call.would_receive,
                              steps |-> call.steps,
                              displayed |-> call.displayed])
    /\ UNCHANGED simIdle

(* The wrap model answers success only for a mined deposit, and then with  *)
(* the amount it was asked to wrap; an executed swap fails in              *)
(* BalancerSwapHandler.                                                    *)
SellGno ==
    /\ sim = None
    /\ \E simulate_flag, balance_ok, wrap_success, swap_success \in BOOLEAN,
          gno_amount \in {0, 2} :
          /\ swap_success => simulate_flag
          /\ LET wrap_result ==
                     ResultDict(wrap_success,
                                IF wrap_success THEN "none" ELSE "message")
                 swap_result ==
                     ResultDict(swap_success,
                                IF swap_success THEN "none" ELSE "error")
                 call == sell_gno(gno_amount, balance_ok, wrap_result,
                                  swap_result)
             IN  sim' = Some([component |-> "sell_gno",
                              simulate |-> simulate_flag,
                              balance_ok |-> balance_ok,
                              gno_amount |-> gno_amount,
                              wrap_result |-> wrap_result,
                              swap_result |-> swap_result,
                              out |-> call.out,
                              would_receive |-> call.would_receive,
                              steps |-> call.steps,
                              displayed |-> call.displayed])
    /\ UNCHANGED simIdle

(* NextSim and SpecSim follow the consumers of a simulated bundle.       *)

(* C19: every call of a component gives its caller a result value with a   *)
(* success flag and, when it failed, an error; no exception leaves the     *)
(* component.                                                              *)
C19_StructuredResultNeverRaises ==
    (sim # None /\ Val(sim).component \in {"simulate_swap_exact_in",
                                           "buy_gno"}) =>
        LET out == Val(sim).out
        IN  /\ out.kind = "return"
            /\ out.value # None
            /\ Val(out.value).kind = "result"
            /\ ~Val(out.value).success => Val(out.value).error # "none"

(* The simulator did not answer the request with results: the transport    *)
(* failed, the status code is an error, or the body is undecodable or an   *)
(* error body.                                                             *)
TransportFailure(r) ==
    \/ r.transport # "ok"
    \/ r.status >= 400
    \/ r.body.kind \in {"undecodable", "error", "null_results"}

(* C20: when the transport or the server fails, the client's call returns  *)
(* one failure for the whole bundle (None, or the server's error body),    *)
(* and never a list of per-transaction results.                            *)
C20_AggregateFailureOnTransportError ==
    (/\ sim # None
     /\ Val(sim).component \in {"simulate_bundle", "api_simulate_bundle",
                                "simulate"}
     /\ TransportFailure(Val(sim).response)) =>
        LET out == Val(sim).out
        IN  /\ out.kind = "return"
            /\ out.value # None =>
                  Val(out.value).kind \in {"error", "null_results"}

----------------------------------------------------------------------------
(* The consumers of a simulated bundle (exchanges/simulator).  They are    *)
(* further calls of SpecSim.                                               *)

(* One entry of "simulation_results": an error entry, an entry without a   *)
(* transaction, a reverted transaction, or a transaction that did not      *)
(* revert, whose call trace has no output, the output "0x", an output      *)
(* that is not hexadecimal, or a uint256.                                  *)
SimEntries ==
    [status : {"error", "no_transaction", "reverted"},
     output : {[kind |-> "missing", wei |-> 0]}]
    \cup [status : {"ok"},
          output : [kind : {"missing", "empty", "undecodable"}, wei : {0}]
                   \cup [kind : {"uint256"}, wei : {0, 7}]]

(* The bundles of at most n entries.                                       *)
SimLists(n) == UNION {[1..k -> SimEntries] : k \in 0..n}

(* extract_return: the uint256 of the entry's output, None when there is   *)
(* no output to decode.  The price it prints divides by the decoded        *)
(* amount (fixed_kind "out") or by the amount of the call ("in").          *)
extract_return(entry, amount_local, fixed_kind) ==
    IF entry.output.kind # "uint256" THEN Returns(None)
    ELSE IF fixed_kind = "out" /\ entry.output.wei = 0
         THEN Raises("DivisionByZero")
    ELSE IF fixed_kind = "in" /\ amount_local = 0
         THEN Raises("DivisionByZero")
    ELSE Returns(Some(entry.output.wei))

(* get_gno_yes_and_no_amounts_from_sdai, from the value client.simulate    *)
(* returned on: entries 2 and 3 of the bundle are the YES and NO swaps;    *)
(* an entry that is an error, has no transaction or reverted is skipped,   *)
(* and the loop goes on with the next entry.                               *)
get_gno_yes_and_no_amounts_from_sdai(gno_amount_in_wei, simulated) ==
    LET sims == IF simulated = None THEN <<>> ELSE Val(simulated)
        extracted(i) ==
            IF i <= Len(sims) /\ sims[i].status = "ok"
            THEN extract_return(sims[i], gno_amount_in_wei, "out")
            ELSE Returns(None)
        from_wei(o) == IF o # None /\ Val(o) # 0 THEN o ELSE None
    IN  IF extracted(2).kind = "raise" THEN extracted(2)
        ELSE IF extracted(3).kind = "raise" THEN extracted(3)
        ELSE Returns(Some([amount_out_yes |-> from_wei(extracted(2).value),
                           amount_out_no |-> from_wei(extracted(3).value)]))

(* parse_swap_results of helpers/swapr_swap.py: result_dict is overwritten *)
(* by every entry that did not revert and whose router call decodes;       *)
(* `entry` records which entry the returned amounts are from.              *)
RECURSIVE parse_swap_results(_, _)
parse_swap_results(results, n) ==
    IF n = 0 THEN None
    ELSE IF results[n].status = "ok" /\ results[n].output.kind = "uint256"
         THEN Some([amount |-> results[n].output.wei, entry |-> n])
    ELSE parse_swap_results(results, n - 1)

(* A bundle that puts the two swaps before the split.                      *)
BundleStepsLegsFirst(gno_amount_in_wei, liquidate) ==
    <<"swap_yes", "swap_no", "split", "merge">>

(* The bundle, in the order of the steps list: the split, the YES and NO   *)
(* swaps, the merge, the liquidation of conditional sDAI (one swap, or a   *)
(* swap and a merge) and, when GNO is sold, the Balancer swap.             *)
BundleSteps(gno_amount_in_wei, liquidate) ==
    <<"split", "swap_yes", "swap_no", "merge">>
    \o (IF liquidate > 0 THEN <<"liquidate">>
        ELSE <<"buy_sdai_yes", "merge_sdai">>)
    \o (IF gno_amount_in_wei # 0 THEN <<"balancer">> ELSE <<>>)

(* What the simulator makes of one transaction on a state of balances: a   *)
(* transaction that spends more than the state holds reverts and leaves    *)
(* the state as it was.  c holds the amounts of the call.  The steps       *)
(* after the merge do not touch the balances the swaps read.               *)
bundle_step(state, tx, c) ==
    LET ok(cond, after) == IF cond THEN [status |-> "ok", state |-> after]
                           ELSE [status |-> "reverted", state |-> state]
    IN  CASE tx = "split" ->
               ok(state.sdai >= c.split,
                  [state EXCEPT !.sdai = @ - c.split,
                                !.sdai_yes = @ + c.split,
                                !.sdai_no = @ + c.split])
          [] tx = "swap_yes" ->
               ok(state.sdai_yes >= c.cost /\ c.cost <= c.amount_in_max,
                  [state EXCEPT !.sdai_yes = @ - c.cost,
                                !.gno_yes = @ + c.gno])
          [] tx = "swap_no" ->
               ok(state.sdai_no >= c.cost /\ c.cost <= c.amount_in_max,
                  [state EXCEPT !.sdai_no = @ - c.cost,
                                !.gno_no = @ + c.gno])
          [] tx = "merge" ->
               ok(state.gno_yes >= c.gno /\ state.gno_no >= c.gno,
                  [state EXCEPT !.gno_yes = @ - c.gno,
                                !.gno_no = @ - c.gno])
          [] OTHER -> ok(c.tail_ok, state)

(* The simulation of a bundle sent as one request: every transaction is    *)
(* run on the state its predecessors left; `before` is the state the       *)
(* transaction saw.                                                        *)
RECURSIVE BundleRun(_, _, _)
BundleRun(state, bundle, c) ==
    IF bundle = <<>> THEN <<>>
    ELSE LET r == bundle_step(state, Head(bundle), c)
         IN  <<[tx |-> Head(bundle), status |-> r.status, before |-> state]>>
             \o BundleRun(r.state, Tail(bundle), c)

(* The whole of get_gno_yes_and_no_amounts_from_sdai: the bundle is built, *)
(* sent in one client.simulate call, and the answer is parsed.  The        *)
(* answer may be missing (None), shorter than the bundle, hold an error    *)
(* entry or an entry without transaction, and the output of a swap that    *)
(* did not revert may be absent, empty or undecodable.                     *)
GetGnoYesAndNoAmountsFromSdai ==
    /\ sim = None
    /\ \E held \in [sdai : {0, 100}, sdai_yes : {0, 100},
                     sdai_no : {0, 100}],
          gno_amount_in_wei \in {0, 5}, liquidate \in {0, 10},
          swap_cost \in {60, 130}, tail_ok, answered \in BOOLEAN,
          returned \in 0..7,
          fault \in [at : 0..3, status : {"error", "no_transaction"}],
          output_yes, output_no \in
              {"uint256", "missing", "empty", "undecodable"} :
          LET bundle == BundleSteps(gno_amount_in_wei, liquidate)
              c == [split |-> 100, gno |-> gno_amount_in_wei,
                    cost |-> IF gno_amount_in_wei = 0 THEN 0 ELSE swap_cost,
                    amount_in_max |-> (100 * 12) \div 10,
                    tail_ok |-> tail_ok]
              run == BundleRun([sdai |-> held.sdai,
                                sdai_yes |-> held.sdai_yes,
                                sdai_no |-> held.sdai_no,
                                gno_yes |-> 0, gno_no |-> 0], bundle, c)
              output(kind) == [kind |-> kind,
                               wei |-> IF kind = "uint256" THEN c.cost
                                       ELSE 0]
              entry(i) ==
                  IF fault.at = i
                  THEN [status |-> fault.status, output |-> output("missing")]
                  ELSE IF run[i].status = "reverted"
                  THEN [status |-> "reverted", output |-> output("missing")]
                  ELSE [status |-> "ok",
                        output |-> IF i = 2 THEN output(output_yes)
                                   ELSE IF i = 3 THEN output(output_no)
                                   ELSE output("missing")]
              simulated == IF answered
                           THEN Some([i \in 1..returned |-> entry(i)])
                           ELSE None
          IN  /\ returned <= Len(bundle)
              /\ sim' = Some([component |->
                                  "get_gno_yes_and_no_amounts_from_sdai",
                              wallet |-> held, split |-> c.split,
                              gno_amount_in_wei |-> gno_amount_in_wei,
                              bundle |-> bundle, requests |-> 1,
                              run |-> run, result |-> simulated,
                              out |-> get_gno_yes_and_no_amounts_from_sdai(
                                          gno_amount_in_wei, simulated)])
    /\ UNCHANGED simIdle

ParseSwapResults ==
    /\ sim = None
    /\ \E results \in SimLists(2) :
          sim' = Some([component |-> "parse_swap_results",
                       results |-> results,
                       out |-> Returns(parse_swap_results(results,
                                                          Len(results)))])
    /\ UNCHANGED simIdle

(* The number of entries of ALLOWANCES.                                    *)
AllowanceCount == 3

(* send_allowances: the transaction count of the account is read once,     *)
(* before the loop; every approval is sent with the local `nonce`, its     *)
(* receipt is awaited, and `nonce += 1` follows.  `count` is the chain's   *)
(* transaction count at the start, `foreign` the approval after which      *)
(* another transaction of the same account is mined (0: none), `reverted`  *)
(* the approval whose receipt has status 0 (0: none).  The node refuses a  *)
(* transaction whose nonce is below the account's transaction count, and   *)
(* send_transaction raises.                                                *)
send_allowances(count, foreign, reverted) ==
    LET nonce(i) == count + (i - 1)
        chain(i) == count + (i - 1)
                    + (IF foreign # 0 /\ i > foreign THEN 1 ELSE 0)
        status(i) == IF nonce(i) < chain(i) THEN "refused"
                     ELSE IF i = reverted THEN "reverted" ELSE "ok"
        stops == {i \in 1..AllowanceCount : status(i) # "ok"}
        last == IF stops = {} THEN AllowanceCount
                ELSE CHOOSE i \in stops : \A j \in stops : i <= j
    IN  [sent |-> [i \in 1..last |->
                     [nonce |-> nonce(i), chain |-> chain(i),
                      read |-> i = 1, status |-> status(i)]],
         out |-> IF status(last) = "refused" THEN Raises("ValueError")
                 ELSE IF status(last) = "reverted"
                      THEN Raises("RuntimeError")
                 ELSE Returns(None)]

SendAllowances ==
    /\ sim = None
    /\ \E count \in {0, 7}, foreign \in 0..(AllowanceCount - 1),
          reverted \in 0..AllowanceCount :
          LET call == send_allowances(count, foreign, reverted)
          IN  sim' = Some([component |-> "send_allowances",
                           count |-> count, foreign |-> foreign,
                           sent |-> call.sent, out |-> call.out])
    /\ UNCHANGED simIdle

NextSim ==
    \/ SimulateBundle
    \/ ApiSimulateBundle
    \/ Simulate
    \/ SimulateSwapExactIn
    \/ BuyGno
    \/ SellGno
    \/ GetGnoYesAndNoAmountsFromSdai
    \/ ParseSwapResults
    \/ SendAllowances

SpecSim == InitSim /\ [][NextSim]_vars

(* C21: once an entry of the bundle has reverted, no amount that the       *)
(* consumer returns is decoded from a later entry.                         *)
C21_NoAmountAfterRevertedEntry ==
    /\ (/\ sim # None
        /\ Val(sim).component = "get_gno_yes_and_no_amounts_from_sdai"
        /\ Val(sim).result # None
        /\ Val(sim).out.kind = "return") =>
           LET sims == Val(Val(sim).result)
               amounts == Val(Val(sim).out.value)
               reverted(i) == i <= Len(sims) /\ sims[i].status = "reverted"
           IN  /\ reverted(1) => amounts.amount_out_yes = None
               /\ (reverted(1) \/ reverted(2)) => amounts.amount_out_no = None
    /\ (/\ sim # None
        /\ Val(sim).component = "parse_swap_results"
        /\ Val(sim).out.value # None) =>
           \A i \in 1..Len(Val(sim).results) :
               Val(sim).results[i].status = "reverted" =>
                   Val(Val(sim).out.value).entry < i

C23_LegsSeePostSplitBalances ==
    (sim # None
     /\ Val(sim).component = "get_gno_yes_and_no_amounts_from_sdai") =>
        LET call == Val(sim)
        IN  /\ call.requests = 1
            /\ SubSeq(call.bundle, 1, 3) = <<"split", "swap_yes", "swap_no">>
            /\ call.run[1].status = "ok" =>
                  /\ call.run[2].before.sdai_yes
                        = call.wallet.sdai_yes + call.split
                  /\ call.run[3].before.sdai_no
                        = call.wallet.sdai_no + call.split

(* A wallet without conditional sDAI whose swaps went through: they could  *)
(* only be paid from what the split produced.                              *)
C23_Witness ==
    /\ sim # None
    /\ Val(sim).component = "get_gno_yes_and_no_amounts_from_sdai"
    /\ Val(sim).wallet.sdai_yes = 0 /\ Val(sim).wallet.sdai_no = 0
    /\ Val(sim).gno_amount_in_wei > 0
    /\ \A i \in 1..3 : Val(sim).run[i].status = "ok"

----------------------------------------------------------------------------
----------------------------------------------------------------------------
(* C25: a split or merge whose wait for the receipt expired is not handed  *)
(* back as failed.                                                         *)
C25_ExpiredWaitNotReportedFailed ==
    \A i \in 1..Len(ctm_trace), j \in 1..Len(ctm_results) :
        (/\ ctm_trace[i].kind \in {"split", "merge"}
         /\ ctm_trace[i].status = "timeout"
         /\ ctm_results[j].op \in
               (IF ctm_trace[i].kind = "split" THEN {"split"}
                ELSE {"merge", "controller_merge"})) =>
            ctm_results[j].success

(* C26: no call of a simulator client waits without end, and a request     *)
(* the server left unanswered ends the call with one failure for the       *)
(* whole bundle.                                                           *)
C26_BoundedRequestTimeout ==
    (/\ sim # None
     /\ Val(sim).component \in {"simulate_bundle", "api_simulate_bundle",
                                "simulate"}
     /\ Val(sim).transactions > 0
     /\ Val(sim).response.transport = "timeout") =>
        Val(sim).out = Returns(None)

(* C27: a split or merge called with an amount that is not strictly        *)
(* positive is handed back as a failure, and no approval, split or merge   *)
(* transaction is sent for it.                                             *)
C27_NonPositiveAmountRejectedOffline ==
    /\ \A i \in 1..Len(ctm_trace) : ctm_trace[i].amt > 0
    /\ \A j \in 1..Len(ctm_results) :
          ctm_results[j].amount <= 0 => ~ctm_results[j].success

(* C28: a price-limit calculation called with a tolerance below 0 or of    *)
(* at least 1 gives its caller no limit.                                   *)
C28_RejectsToleranceOutOfRange ==
    (/\ lcall.fn \in {"manager", "sushi"}
     /\ (lcall.tolerance < 0 \/ lcall.tolerance >= 1000)) =>
        lcall.limit = None

C29_NonceObservedPerTransaction ==
    (sim # None /\ Val(sim).component = "send_allowances") =>
        \A i \in DOMAIN Val(sim).sent :
            /\ Val(sim).sent[i].read
            /\ Val(sim).sent[i].nonce = Val(sim).sent[i].chain

C32_SuccessIffSwapMined ==
    (Returned /\ venue \in {"balancer", "swapr", "sushi", "aave_balancer"}) =>
        (Val(result).success <=>
            \E i \in SwapIdx : trace[i].status = "ok")

----------------------------------------------------------------------------
(* Steps 2 to 5 of the sell routines: unwrap, split and the two            *)
(* conditional-pool legs.                                                  *)
(*                                                                         *)
(* SpecSell starts where step 1 has handed the routine its waGNO (a state  *)
(* no run reaches while BalancerSwapHandler reports every executed swap    *)
(* as failed).  sell.initial holds the balances at the start of the run,   *)
(* sell.b the balances now, sell.log the operations attempted with the     *)
(* amount passed and the balance of the input token when it was passed.    *)
(* Balances are in units of 0.000001 token.                                *)

SellRoutines == {"sell_legacy", "sell_experimental"}

SellBalances ==
    [wagno : {0, 2}, gno : {0, 2}, gno_yes : {0, 2}, gno_no : {0, 2},
     sdai_no : {0, 3}]

SellLog(step, token, amt, ok) ==
    [step |-> step, token |-> token, amt |-> amt, ok |-> ok,
     have |-> sell.b[token], initial |-> sell.initial[token]]

InitSell ==
    /\ \E routine \in SellRoutines, initial \in SellBalances,
          wagno_received \in {6} :
          sell = [routine |-> routine, pc |-> "unwrap", initial |-> initial,
                  b |-> [initial EXCEPT !.wagno = @ + wagno_received],
                  gno_amount |-> 0, yes_amount |-> 0, no_amount |-> 0,
                  log |-> <<>>]
    /\ IdleLimit /\ IdleSwap /\ IdleArb /\ IdleExcept("sell")

sellIdle == <<lcall, swapVars, arbVars, ctmVars, recVars, simVars>>

(* Step 2.  main.py unwraps the whole waGNO balance and takes the change   *)
(* of the GNO balance; experimental/main.py unwraps what step 1 added and  *)
(* takes the GNO balance less the initial one.  A failed unwrap is not     *)
(* looked at; the routine returns when no GNO came in.                     *)
SellUnwrap ==
    /\ sell # <<>> /\ sell.pc = "unwrap"
    /\ LET b == sell.b
           amt == IF sell.routine = "sell_legacy" THEN b.wagno
                  ELSE b.wagno - sell.initial.wagno
       IN  \E ok \in Outcomes(b.wagno, amt) :
              LET after == IF ok THEN Move(b, "wagno", "gno", amt, amt)
                           ELSE b
                  gno_amount == IF sell.routine = "sell_legacy"
                                THEN after.gno - b.gno
                                ELSE after.gno - sell.initial.gno
                  received == IF sell.routine = "sell_legacy"
                              THEN gno_amount > 0
                              ELSE gno_amount > DUST_TOLERANCE
              IN  sell' = [sell EXCEPT
                      !.b = after,
                      !.gno_amount = gno_amount,
                      !.log = Append(@, SellLog("unwrap", "wagno", amt, ok)),
                      !.pc = IF received THEN "split" ELSE "done"]
    /\ UNCHANGED sellIdle

(* Step 3.  main.py splits the whole GNO balance and will sell the whole   *)
(* GNO-YES balance; experimental/main.py splits the GNO of step 2 and      *)
(* will sell what the split added to GNO-YES and to GNO-NO.  For the NO    *)
(* leg main.py keeps sdai_no_before, the sDAI-NO balance read after the    *)
(* split.                                                                  *)
SellSplit ==
    /\ sell # <<>> /\ sell.pc = "split"
    /\ LET b == sell.b
           amt == IF sell.routine = "sell_legacy" THEN b.gno
                  ELSE sell.gno_amount
       IN  \E ok \in Outcomes(b.gno, amt) :
              LET after == IF ok
                           THEN [b EXCEPT !.gno = @ - amt,
                                          !.gno_yes = @ + amt,
                                          !.gno_no = @ + amt]
                           ELSE b
              IN  sell' = [sell EXCEPT
                      !.b = after,
                      !.yes_amount =
                          IF sell.routine = "sell_legacy" THEN after.gno_yes
                          ELSE after.gno_yes - sell.initial.gno_yes,
                      !.no_amount =
                          IF sell.routine = "sell_legacy" THEN after.sdai_no
                          ELSE after.gno_no - sell.initial.gno_no,
                      !.log = Append(@, SellLog("split", "gno", amt, ok)),
                      !.pc = IF ok THEN "leg_yes" ELSE "done"]
    /\ UNCHANGED sellIdle

(* Steps 4 and 5: one leg of the conditional pools; a failed leg is        *)
(* reported and the routine goes on.                                       *)
SellLeg(step, token, amt, next) ==
    /\ sell # <<>> /\ sell.pc = step
    /\ \E ok \in Outcomes(sell.b[token], amt) :
          sell' = [sell EXCEPT
              !.b = IF ok THEN [sell.b EXCEPT ![token] = @ - amt] ELSE sell.b,
              !.log = Append(@, SellLog(step, token, amt, ok)),
              !.pc = next]
    /\ UNCHANGED sellIdle

SellLegYes == SellLeg("leg_yes", "gno_yes", sell.yes_amount, "leg_no")

SellLegNo == SellLeg("leg_no", "gno_no", sell.no_amount, "done")

NextSell == SellUnwrap \/ SellSplit \/ SellLegYes \/ SellLegNo

SpecSell == InitSell /\ [][NextSell]_vars

(* C33: the amount passed to the NO leg is the GNO-NO holding after the    *)
(* split (the whole balance, or what the run added to it), as the amount   *)
(* of the YES leg is for GNO-YES.                                          *)
C33_NoLegSellsGnoNoHolding ==
    sell # <<>> =>
        \A i \in 1..Len(sell.log) :
            sell.log[i].step \in {"leg_yes", "leg_no"} =>
                \/ sell.log[i].amt = sell.log[i].have
                \/ sell.log[i].amt = sell.log[i].have - sell.log[i].initial

(* C34: what the wallet held of waGNO, GNO and the conditional tokens      *)
(* before the run is still there at every step of the run: the run         *)
(* unwraps, splits, swaps, merges, wraps and sells only what it acquired.  *)
C34_PreexistingAssetsUntouched ==
    flow # "none" =>
        \A t \in {"wagno", "gno", "gno_yes", "gno_no", "sdai_yes", "sdai_no"} :
            bal[t] >= arb.initial[t]

(* C35: the swaps buy_sdai_yes submits, the test swap and the main swap,   *)
(* spend together at most the amount it was called with.                   *)
C35_SpendsAtMostAmount ==
    venue = "buy_sdai_yes" =>
        /\ wallet0.in - wallet.in <= amount
        /\ \A i, j \in SwapIdx :
              i < j => trace[i].amt + trace[j].amt <= amount

(* C36: a swap the manager hands to the passthrough router for the sDAI /  *)
(* sDAI-YES pool has zero_for_one true exactly when its input token is     *)
(* the pool's token0, and a limit not above the current price when         *)
(* zero_for_one, not below it otherwise; for a pool that does not hold     *)
(* the pair the call fails and hands nothing to the router.                *)
C36_DirectionAndLimitFollowPool ==
    (/\ lcall.fn \in {"buy_sdai_yes", "sell_sdai_yes"}
     /\ lcall.ret # None /\ lcall.tolerance \in Tolerances) =>
        IF lcall.pool \in {Some(<<"sdai", "sdai_yes">>),
                           Some(<<"sdai_yes", "sdai">>)}
        THEN /\ lcall.limit # None
             /\ lcall.zero_for_one = (lcall.token_in = Val(lcall.pool)[1])
             /\ IF lcall.zero_for_one
                THEN Val(lcall.limit) <= lcall.price
                ELSE Val(lcall.limit) >= lcall.price
        ELSE lcall.limit = None /\ lcall.ret = Some(FALSE)

(* C37: a SushiSwap call for a pair whose configured pool address holds    *)
(* no pool returns a failure and submits no transaction, neither an        *)
(* approval nor a swap.                                                    *)
C37_MissingPoolNoTransaction ==
    (venue = "sushi" /\ ~PoolExists /\ pc = "done") =>
        /\ ~Val(result).success
        /\ \A i \in 1..Len(trace) : ~IsTx(trace[i])

====
